---- MODULE Spec2Model ----
(***************************************************************************)
(* Variational Monte Carlo for the hydrogen ground state: the package      *)
(* vmc_simulation, that is simulation.py (trial_wavefunction,              *)
(* local_energy_func, dE_dalpha, alpha_opt_on_fly, metropolis),            *)
(* config_handler.py (parse_config_file) and main.py, with the             *)
(* local_energy_func of src/local_energy.py and src/wavefunction.py.       *)
(* The runs of Spec are calls of vmc_simulation.simulation.metropolis, the  *)
(* function main.py and the tests import; the four-parameter metropolis of *)
(* src/simulation.py and of src/metropolis.py, with the functions of       *)
(* src/wavefunction.py, src/local_energy.py, src/dE_dalpha.py and          *)
(* src/alpha_optimization.py, are the runs of FourParamSpec.               *)
(*                                                                         *)
(* Real numbers are fixed-point integers in units of 1/Scale, every        *)
(* arithmetic operation rounding to the nearest unit (the finite precision *)
(* of float64, at a coarser grain).  Scale is a multiple of 2 and 3, so    *)
(* that the mean position of up to three walkers on the half-unit grid is  *)
(* exact.  Values of the exponential are kept in the log domain:           *)
(* [k |-> "exp", q |-> e] stands for exp(e/Scale), with the float64        *)
(* underflow to 0 and overflow to inf made explicit.                       *)
(***************************************************************************)
EXTENDS Integers, Sequences, FiniteSets, TLC

\* ------------------------------------------------------------------ bounds
MaxEquilSteps == 2
MaxNumSteps == 2
MaxWalkers == 2
\* the sweeps of all walkers of one run: equilibration_steps * numsteps * numwalkers
MaxWork == 6

\* ------------------------------------------------- fixed-point arithmetic
Scale == 300

\* n / d for an integer d > 0, rounded to the nearest integer (half up)
RoundDiv(n, d) == (n \div d) + (IF 2 * (n % d) >= d THEN 1 ELSE 0)

\* a * b of two reals
FMul(a, b) == ((a \div Scale) * b) + RoundDiv((a % Scale) * b, Scale)

\* a / b of two reals, b # 0: a * Scale / b rounded to the nearest unit, the
\* whole multiples of b taken out of a before the multiplication
FDiv(a, b) ==
    LET n == IF b > 0 THEN a ELSE 0 - a
        d == IF b > 0 THEN b ELSE 0 - b
    IN  ((n \div d) * Scale) + RoundDiv((n % d) * Scale, d)

\* the integer literal n as a real
Lit(n) == n * Scale

RECURSIVE SumSeq(_)
SumSeq(s) == IF s = <<>> THEN 0 ELSE Head(s) + SumSeq(Tail(s))

\* np.mean of a non-empty array
Mean(s) == RoundDiv(SumSeq(s), Len(s))

\* ---------------------------------------------------- float64 exponential
\* exp(q) is 0.0 for q below ln(2^-1075) and inf for q above ln(2^1024)
\* (-745.1332 and 709.7827, in units of 1/Scale)
ExpUnderflow == -223540
ExpOverflow == 212935

Zero == [k |-> "zero", q |-> 0]
Inf == [k |-> "inf", q |-> 0]
NaN == [k |-> "nan", q |-> 0]
ExpVal(e) == [k |-> "exp", q |-> e]

\* np.exp(e / Scale)
NpExp(e) ==
    IF e <= ExpUnderflow THEN Zero
    ELSE IF e >= ExpOverflow THEN Inf
    ELSE ExpVal(e)

\* numerator / denominator of two wavefunction values
Ratio(n, d) ==
    CASE n.k = "nan" \/ d.k = "nan" -> NaN
      [] d.k = "zero" -> IF n.k = "zero" THEN NaN ELSE Inf
      [] n.k = "zero" -> Zero
      [] n.k = "inf" /\ d.k = "inf" -> NaN
      [] n.k = "inf" -> Inf
      [] d.k = "inf" -> Zero
      [] OTHER -> NpExp(n.q - d.q)

\* the uniform draw that is, bit for bit, the float of the ratio it is compared
\* with: the one draw of a walker that ties with its ratio
SameAsRatio == [k |-> "ratio", q |-> 0]

\* p > u on floats (any comparison with nan is False, and so is p > p)
Greater(p, u) ==
    CASE p.k = "nan" \/ u.k = "nan" -> FALSE
      [] u.k = "ratio" -> FALSE
      [] p.k = "inf" -> u.k # "inf"
      [] p.k = "zero" -> FALSE
      [] u.k = "inf" -> FALSE
      [] u.k = "zero" -> TRUE
      [] OTHER -> p.q > u.q

\* ----------------------------------------------------------- the evaluators
AlphaLow == -1000
AlphaHigh == 200

NoError == [kind |-> "none", msg |-> ""]
TypeError(m) == [kind |-> "TypeError", msg |-> m]
ValueError(m) == [kind |-> "ValueError", msg |-> m]

\* the checks of alpha with the two ends of the range rejected
trial_wavefunction_raises_open(alpha_) ==
    IF alpha_.t # "real" THEN TypeError("Alpha must be a real number.")
    ELSE IF alpha_.v <= Lit(AlphaLow)
        THEN ValueError("Too large negative alpha causes numerical instability.")
    ELSE IF alpha_.v >= Lit(AlphaHigh)
        THEN ValueError("Too large alpha causes numerical instability.")
    ELSE NoError

\* the exception trial_wavefunction raises for this alpha, NoError if it returns
trial_wavefunction_raises(alpha_) ==
    IF alpha_.t # "real" THEN TypeError("Alpha must be a real number.")
    ELSE IF alpha_.v < Lit(AlphaLow)
        THEN ValueError("Too large negative alpha causes numerical instability.")
    ELSE IF alpha_.v > Lit(AlphaHigh)
        THEN ValueError("Too large alpha causes numerical instability.")
    ELSE NoError

\* trial_wavefunction without the piecewise zero for x <= 0
trial_wavefunction_unclamped(x, alpha_) ==
    [w \in DOMAIN x |-> NpExp(FMul(0 - alpha_, x[w]))]

\* trial_wavefunction with the exponential at x == 0
trial_wavefunction_closed(x, alpha_) ==
    [w \in DOMAIN x |-> IF x[w] >= 0 THEN NpExp(FMul(0 - alpha_, x[w])) ELSE Zero]

\* np.where(x > 0, np.exp(-alpha * x), 0), alpha a real number
trial_wavefunction(x, alpha_) ==
    [w \in DOMAIN x |-> IF x[w] > 0 THEN NpExp(FMul(0 - alpha_, x[w])) ELSE Zero]

\* Python's own TypeError of alpha**2 for an alpha that is no number
local_energy_func_raises(alpha_) ==
    CASE alpha_.t = "list" ->
             TypeError("unsupported operand type(s) for ** or pow(): 'list' and 'int'")
      [] alpha_.t = "str" ->
             TypeError("unsupported operand type(s) for ** or pow(): 'str' and 'int'")
      [] OTHER -> NoError

\* the local energy with alpha in place of alpha / x
local_energy_func_flat(x, alpha_) ==
    [w \in DOMAIN x |->
        FDiv(Lit(-1), x[w]) - RoundDiv(FMul(alpha_, alpha_), 2) + alpha_]

\* -1 / x - (alpha**2) / 2 + alpha / x, elementwise
local_energy_func(x, alpha_) ==
    [w \in DOMAIN x |->
        FDiv(Lit(-1), x[w]) - RoundDiv(FMul(alpha_, alpha_), 2) + FDiv(alpha_, x[w])]

\* the covariance without its factor 2
dE_dalpha_unscaled(x, alpha_) ==
    LET El == local_energy_func(x, alpha_)
        ln_wf == [w \in DOMAIN x |-> 0 - x[w]]
        prod == [w \in DOMAIN x |-> FMul(El[w], ln_wf[w])]
    IN Mean(prod) - FMul(Mean(El), Mean(ln_wf))

\* 2 * (mean(El * ln_wf) - mean(El) * mean(ln_wf)), ln_wf = -x
dE_dalpha(x, alpha_) ==
    LET El == local_energy_func(x, alpha_)
        ln_wf == [w \in DOMAIN x |-> 0 - x[w]]
        prod == [w \in DOMAIN x |-> FMul(El[w], ln_wf[w])]
    IN 2 * (Mean(prod) - FMul(Mean(El), Mean(ln_wf)))

\* Python's own TypeError of learning_rate < 0 for a learning_rate that is
\* not a real number, by the type of the learning_rate
CompareMsg(t) ==
    CASE t = "str" -> "'<' not supported between instances of 'str' and 'int'"
      [] t = "none" -> "'<' not supported between instances of 'NoneType' and 'int'"
      [] t = "list" -> "'<' not supported between instances of 'list' and 'int'"
      [] t = "dict" -> "'<' not supported between instances of 'dict' and 'int'"
      [] OTHER -> "'<' not supported between instances of 'complex' and 'int'"

NegativeLearningRateMsg ==
    "Learning rate must be a non-negative number, otherwise it would cause divergence."

\* the exceptions of alpha_opt_on_fly with a learning rate of zero rejected
alpha_opt_on_fly_raises_zero(alpha_, learning_rate_) ==
    IF learning_rate_.t # "real"
        THEN TypeError(CompareMsg(learning_rate_.t))
    ELSE IF learning_rate_.v <= 0
        THEN ValueError(NegativeLearningRateMsg)
    ELSE local_energy_func_raises(alpha_)

\* the exceptions of alpha_opt_on_fly without its check of a negative
\* learning rate
alpha_opt_on_fly_raises_unchecked(alpha_, learning_rate_) ==
    IF learning_rate_.t # "real"
        THEN TypeError(CompareMsg(learning_rate_.t))
    ELSE local_energy_func_raises(alpha_)

\* the exception alpha_opt_on_fly raises, NoError if it returns: the check of
\* the learning rate (a str compared with 0 is Python's own TypeError), then
\* alpha**2 inside local_energy_func for an alpha that is not a number
alpha_opt_on_fly_raises(alpha_, learning_rate_) ==
    IF learning_rate_.t # "real"
        THEN TypeError(CompareMsg(learning_rate_.t))
    ELSE IF learning_rate_.v < 0
        THEN ValueError(NegativeLearningRateMsg)
    ELSE local_energy_func_raises(alpha_)

\* the warning alpha_opt_on_fly issues before it computes the gradient
alpha_opt_on_fly_warns(learning_rate_) ==
    learning_rate_.t = "real" /\ learning_rate_.v = 0

\* a step up the gradient
alpha_opt_on_fly_ascent(position_vec_, alpha_, learning_rate_) ==
    LET dE_da == dE_dalpha(position_vec_, alpha_)
    IN <<alpha_ + FMul(learning_rate_, dE_da), dE_da>>

\* <<new alpha, gradient>> of one gradient-descent step
alpha_opt_on_fly(position_vec_, alpha_, learning_rate_) ==
    LET dE_da == dE_dalpha(position_vec_, alpha_)
    IN <<alpha_ - FMul(learning_rate_, dE_da), dE_da>>

\* ------------------------------------------------------------ the inputs
\* a count argument: an int, or a value of another type (3.5, "string")
CountArgs(max) ==
    {[t |-> "int", v |-> n] : n \in -1 .. max}
        \cup {[t |-> "float", v |-> 3], [t |-> "str", v |-> 0]}

Real(v) == [t |-> "real", v |-> v]
Missing == [t |-> "missing", v |-> 0]

\* alpha: 2.0, -100.0, the two ends of the accepted range, 201.0, and a str
AlphaArgs ==
    {Real(Lit(2)), Real(Lit(-100)), Real(Lit(AlphaHigh)), Real(Lit(AlphaHigh + 1)),
     Real(Lit(AlphaLow)), [t |-> "str", v |-> 0]}

\* learning_rate: -0.01, 0, 0.01, 6.5 (one update can carry alpha across the
\* whole accepted range), and a str
LearningRateArgs ==
    {Real(0 - (Scale \div 100)), Real(0), Real(Scale \div 100),
     Real(Lit(6) + (Scale \div 2)), [t |-> "str", v |-> 0]}

StepSizeArgs == {Real(Scale \div 10), Real(Scale \div 2)}

\* np.random.uniform(low=2, high=3): values of [2, 3)
InitialPositions == {Lit(2), Lit(2) + (Scale \div 2)}

\* np.random.randn: standard normal draws (any real); scaled by 0.1 they
\* displace a walker by -3 or +3
RandnDraws == {Lit(-30), Lit(30)}

\* a value of np.random.uniform() inside (0, 1): exp(-208/300) = 0.49993...
\* No ratio of the runs explored lies within the rounding of the fixed-point
\* arithmetic of this value, of 0 or of 1, so that p > u falls here as it does
\* on the floats; the draw that meets a ratio exactly is SameAsRatio.
UniformInside == ExpVal(0 - ((208 * Scale) \div 300))

\* np.random.uniform() for a walker whose ratio is p_w: 0.0, 0.49993..., and,
\* when 0 < p_w < 1, the float p_w itself
UniformDraws(p_w) ==
    {Zero, UniformInside} \cup (IF p_w.k = "exp" /\ p_w.q < 0 THEN {SameAsRatio} ELSE {})

\* the arrays np.random.uniform(size=numwalkers) can return for the ratios p_
UniformArrays(p_) ==
    {u \in [DOMAIN p_ -> UNION {UniformDraws(p_[w]) : w \in DOMAIN p_}] :
        \A w \in DOMAIN p_ : u[w] \in UniformDraws(p_[w])}

\* the runs explored: at most MaxWork walker sweeps
WithinWork(e, n, w) ==
    (e.t = "int" /\ n.t = "int" /\ w.t = "int") => e.v * n.v * w.v <= MaxWork

\* the calls: main.py passes six arguments, the tests four, the signature has five
Calls ==
    {[nargs |-> 5, equilibration_steps |-> c[1], numsteps |-> c[2], numwalkers |-> c[3],
      alpha |-> a, learning_rate |-> l, step_size |-> Missing] :
        c \in {d \in CountArgs(MaxEquilSteps) \X CountArgs(MaxNumSteps)
                        \X CountArgs(MaxWalkers) : WithinWork(d[1], d[2], d[3])},
        a \in AlphaArgs, l \in LearningRateArgs}
    \cup
    {[nargs |-> 6, equilibration_steps |-> e, numsteps |-> n, numwalkers |-> w,
      alpha |-> a, learning_rate |-> l, step_size |-> s] :
        e \in {[t |-> "int", v |-> 1]}, n \in {[t |-> "int", v |-> 1]},
        w \in {[t |-> "int", v |-> 1]}, a \in AlphaArgs, l \in LearningRateArgs,
        s \in StepSizeArgs}
    \cup
    {[nargs |-> 4, equilibration_steps |-> e, numsteps |-> n, numwalkers |-> w,
      alpha |-> a, learning_rate |-> Missing, step_size |-> Missing] :
        e \in {[t |-> "int", v |-> 1]}, n \in {[t |-> "int", v |-> 1]},
        w \in {[t |-> "int", v |-> 1]}, a \in AlphaArgs}

\* --------------------------------------------------------------- the state
VARIABLES
    pc,                   \* Call, Validating, Initializing, Equilibrating, Measuring, Done, Error
    call,                 \* the arguments of the call of metropolis
    equilibration_steps, numsteps, numwalkers, learning_rate,
    alpha,                \* the orchestrator's current alpha
    position_vec, initial_pos,
    alpha_buffer, dE_da_buffer, E_buffer,
    j, i,                 \* the loop indices
    new_position_vec, denominator, numerator, p, rand_unif_array,
    rng_calls,            \* calls made to the global numpy random generator
    warned,               \* warnings issued
    error,                \* the exception that ended the run
    returned,             \* the tuple the run returned, <<>> before it returns
    draws,                \* the draws taken from the global generator, in order,
                          \* recorded in the runs that trace them
    applied,              \* the evaluator called on its own, "" before the call
    arg_x, arg_alpha, arg_learning_rate,    \* its arguments
    ret,                  \* what it returned
    raised,               \* the exception it raised
    ret_warned,           \* the warnings it issued
    main_pc,              \* main: "Parse", "Merge", "Call", "Called", "Off" when not run
    argv,                 \* the options given on the command line, each with the way it is written
    config,               \* the path --config names, whether it exists, and the file
    args,                 \* the argparse namespace
    config_args,          \* the dictionary main merges into the namespace
    passed,               \* the values main passes to the simulation
    main_error,           \* the exception that ended main
    parse_pc,             \* parse_config_file: "Call", "Returned", "Raised", "Off" when not run
    path_exists,          \* whether config_path names an existing file
    config_file,          \* the file as configparser reads it
    config_params,        \* the dictionary parse_config_file returns
    parse_error           \* the exception parse_config_file raised

params == <<call, equilibration_steps, numsteps, numwalkers, learning_rate>>
buffers == <<alpha_buffer, dE_da_buffer, E_buffer>>
locals == <<new_position_vec, denominator, numerator, p, rand_unif_array>>
evals == <<applied, arg_x, arg_alpha, arg_learning_rate, ret, raised, ret_warned>>
mains == <<main_pc, argv, config, args, config_args, passed, main_error>>
parses == <<parse_pc, path_exists, config_file, config_params, parse_error>>
vars == <<pc, params, alpha, position_vec, initial_pos, buffers, j, i, locals,
          rng_calls, warned, error, returned, draws, evals, mains, parses>>

\* one call of the generator and the vector it returned
UniformDraw(v) == [kind |-> "uniform", v |-> v]
RandnDraw(v) == [kind |-> "randn", v |-> v]

\* the record of the draws: kept when the run is traced
Untraced == [on |-> FALSE, seq |-> <<>>]
Traced == [on |-> TRUE, seq |-> <<>>]
Record(draws_, taken) ==
    IF draws_.on THEN [on |-> TRUE, seq |-> draws_.seq \o taken] ELSE draws_

Unset == [set |-> FALSE, v |-> 0]
Val(v) == [set |-> TRUE, v |-> v]

CountsTypeMsg == "equilibration_steps, numsteps, and numwalkers must be integers."
CountsValueMsg == "numsteps and numwalkers must be positive integers greater than 0."
EquilValueMsg == "equilibration_steps must be a non-negative integer."
DivZeroMsg == "Division by zero detected in p calculation."
EquilWarning == "equilibration_steps is set to 0. The system will not equilibrate before optimization."
LearningRateWarning == "The learning rate is set to 0. No optimization will be performed for alpha."

\* what a call returns: nothing yet, an array, a scalar, a pair, or complex
\* values (not followed further)
NoReturn == [kind |-> "none", v |-> <<>>]
Array(v) == [kind |-> "array", v |-> v]
Scalar(v) == [kind |-> "scalar", v |-> <<v>>]
ComplexValued == [kind |-> "complex", v |-> <<>>]

\* no evaluator is called on its own
EvalIdle ==
    /\ applied = ""
    /\ arg_x = <<>> /\ arg_alpha = Missing /\ arg_learning_rate = Missing
    /\ ret = NoReturn /\ raised = NoError /\ ret_warned = {}

\* a config file without a [Simulation] section
NoSection == [read_error |-> NoError, has_section |-> FALSE, section |-> <<>>, defaults |-> <<>>]

\* parse_config_file is not called
ParseIdle ==
    /\ parse_pc = "Off"
    /\ path_exists = FALSE /\ config_file = NoSection
    /\ config_params = <<>> /\ parse_error = NoError

\* main is not run
MainIdle ==
    /\ main_pc = "Off"
    /\ argv = <<>>
    /\ config = [path |-> "", exists |-> FALSE, file |-> NoSection]
    /\ args = <<>> /\ config_args = <<>> /\ passed = <<>>
    /\ main_error = NoError

Init ==
    /\ EvalIdle
    /\ MainIdle
    /\ ParseIdle
    /\ call \in Calls
    /\ pc = "Call"
    /\ equilibration_steps = Missing /\ numsteps = Missing /\ numwalkers = Missing
    /\ learning_rate = Missing /\ alpha = Missing
    /\ position_vec = <<>> /\ initial_pos = <<>>
    /\ alpha_buffer = <<>> /\ dE_da_buffer = <<>> /\ E_buffer = <<>>
    /\ j = 0 /\ i = 0
    /\ new_position_vec = <<>> /\ denominator = <<>> /\ numerator = <<>>
    /\ p = <<>> /\ rand_unif_array = <<>>
    /\ rng_calls = 0
    /\ warned = {}
    /\ error = NoError
    /\ returned = <<>>
    /\ draws = Untraced

Fail(e) == pc' = "Error" /\ error' = e

\* the signature metropolis(equilibration_steps, numsteps, numwalkers, alpha,
\* learning_rate): the TypeError of a call with another number of arguments
metropolis_signature_raises(nargs) ==
    IF nargs > 5 THEN TypeError("metropolis() takes 5 positional arguments but 6 were given")
    ELSE IF nargs < 5 THEN TypeError("metropolis() missing 1 required positional argument: 'learning_rate'")
    ELSE NoError

\* the call binds the five parameters
Call ==
    /\ pc = "Call"
    /\ IF metropolis_signature_raises(call.nargs) # NoError
         THEN /\ Fail(metropolis_signature_raises(call.nargs))
              /\ UNCHANGED <<equilibration_steps, numsteps, numwalkers, learning_rate, alpha>>
         ELSE /\ pc' = "Validating"
              /\ equilibration_steps' = call.equilibration_steps
              /\ numsteps' = call.numsteps
              /\ numwalkers' = call.numwalkers
              /\ alpha' = call.alpha
              /\ learning_rate' = call.learning_rate
              /\ UNCHANGED error
    /\ UNCHANGED <<call, position_vec, initial_pos, buffers, j, i, locals, rng_calls, warned>>
    /\ UNCHANGED <<returned, draws, evals, mains, parses>>

\* the checks of the counts without the check of equilibration_steps < 0
metropolis_raises_nonegative(equilibration_steps_, numsteps_, numwalkers_) ==
    IF equilibration_steps_.t # "int" \/ numsteps_.t # "int" \/ numwalkers_.t # "int"
        THEN TypeError(CountsTypeMsg)
    ELSE IF numsteps_.v <= 0 \/ numwalkers_.v <= 0
        THEN ValueError(CountsValueMsg)
    ELSE NoError

\* the checks of the counts with equilibration_steps <= 0 rejected
metropolis_raises_zero(equilibration_steps_, numsteps_, numwalkers_) ==
    IF equilibration_steps_.t # "int" \/ numsteps_.t # "int" \/ numwalkers_.t # "int"
        THEN TypeError(CountsTypeMsg)
    ELSE IF numsteps_.v <= 0 \/ numwalkers_.v <= 0
        THEN ValueError(CountsValueMsg)
    ELSE IF equilibration_steps_.v <= 0
        THEN ValueError(EquilValueMsg)
    ELSE NoError

\* the checks of the counts at the entry of metropolis
metropolis_raises(equilibration_steps_, numsteps_, numwalkers_) ==
    IF equilibration_steps_.t # "int" \/ numsteps_.t # "int" \/ numwalkers_.t # "int"
        THEN TypeError(CountsTypeMsg)
    ELSE IF numsteps_.v <= 0 \/ numwalkers_.v <= 0
        THEN ValueError(CountsValueMsg)
    ELSE IF equilibration_steps_.v < 0
        THEN ValueError(EquilValueMsg)
    ELSE NoError

\* a loop control that ends the run after its first measurement
LoopPc_once(j_) ==
    IF j_ >= 1 THEN "Done"
    ELSE IF equilibration_steps.v > 0 THEN "Equilibrating"
    ELSE "Measuring"

\* a loop control that measures without the sweeps of the step
LoopPc_no_sweep(j_) ==
    IF j_ >= numsteps.v THEN "Done" ELSE "Measuring"

\* a loop control that runs one outer step more than numsteps
LoopPc_one_more(j_) ==
    IF j_ > numsteps.v THEN "Done"
    ELSE IF equilibration_steps.v > 0 THEN "Equilibrating"
    ELSE "Measuring"

\* a loop control that begins every outer step with a sweep
LoopPc_sweeps_first(j_) ==
    IF j_ >= numsteps.v THEN "Done" ELSE "Equilibrating"

\* the state the loops are in at outer index j_, before any sweep of that step
LoopPc(j_) ==
    IF j_ >= numsteps.v THEN "Done"
    ELSE IF equilibration_steps.v > 0 THEN "Equilibrating"
    ELSE "Measuring"

Validate ==
    /\ pc = "Validating"
    /\ LET e == metropolis_raises(equilibration_steps, numsteps, numwalkers)
       IN IF e # NoError
            THEN Fail(e) /\ UNCHANGED warned
            ELSE /\ pc' = "Initializing"
                 /\ warned' = IF equilibration_steps.v = 0
                                THEN warned \cup {EquilWarning} ELSE warned
                 /\ UNCHANGED error
    /\ UNCHANGED <<params, alpha, position_vec, initial_pos, buffers, j, i, locals, rng_calls>>
    /\ UNCHANGED <<returned, draws, evals, mains, parses>>

Initialize ==
    /\ pc = "Initializing"
    /\ \E pos \in [1 .. numwalkers.v -> InitialPositions] :
          /\ position_vec' = pos
          /\ initial_pos' = pos
          /\ draws' = Record(draws, <<UniformDraw(pos)>>)
    /\ alpha_buffer' = [k \in 0 .. numsteps.v - 1 |-> Unset]
    /\ dE_da_buffer' = [k \in 0 .. numsteps.v - 1 |-> Unset]
    /\ E_buffer' = [k \in 0 .. numsteps.v - 1 |-> Unset]
    /\ rng_calls' = rng_calls + 1
    /\ j' = 0 /\ i' = 0
    /\ pc' = LoopPc(0)
    /\ UNCHANGED <<params, alpha, locals, warned, error, returned, evals, mains, parses>>

\* position_vec + 0.1 * np.random.randn(numwalkers)
Propose(position_vec_, randn) ==
    [w \in DOMAIN position_vec_ |-> position_vec_[w] + FMul(Scale \div 10, randn[w])]

\* acceptance with p >= rand_unif_array in place of p > rand_unif_array
Accept_nonstrict(p_, rand_unif_array_, new_position_vec_, position_vec_) ==
    [w \in DOMAIN position_vec_ |->
        IF Greater(p_[w], rand_unif_array_[w]) \/ rand_unif_array_[w] = SameAsRatio
            THEN new_position_vec_[w]
        ELSE position_vec_[w]]

\* acceptance of every walker by the uniform draw of the first walker
Accept_first_draw(p_, rand_unif_array_, new_position_vec_, position_vec_) ==
    [w \in DOMAIN position_vec_ |->
        IF Greater(p_[w], rand_unif_array_[1]) THEN new_position_vec_[w]
        ELSE position_vec_[w]]

\* np.where(p > rand_unif_array, new_position_vec, position_vec)
Accept(p_, rand_unif_array_, new_position_vec_, position_vec_) ==
    [w \in DOMAIN position_vec_ |->
        IF Greater(p_[w], rand_unif_array_[w]) THEN new_position_vec_[w]
        ELSE position_vec_[w]]

\* the sweep without its check of the denominator
AnyZero_unchecked(denominator_) == FALSE

\* np.any(denominator == 0)
AnyZero(denominator_) == \E w \in DOMAIN denominator_ : denominator_[w].k = "zero"

\* one equilibration sweep: the body of the inner loop
Sweep ==
    /\ pc = "Equilibrating"
    /\ \E randn \in [1 .. numwalkers.v -> RandnDraws] :
        LET proposed == Propose(position_vec, randn)
            e == trial_wavefunction_raises(alpha)
            den == trial_wavefunction(position_vec, alpha.v)
            num == trial_wavefunction(proposed, alpha.v)
        IN /\ new_position_vec' = proposed
           /\ IF e # NoError
                THEN /\ Fail(e)
                     /\ rng_calls' = rng_calls + 1
                     /\ draws' = Record(draws, <<RandnDraw(randn)>>)
                     /\ UNCHANGED <<position_vec, denominator, numerator, p,
                                    rand_unif_array, i>>
                ELSE /\ denominator' = den
                     /\ numerator' = num
                     /\ IF AnyZero(den)
                          THEN /\ Fail(ValueError(DivZeroMsg))
                               /\ rng_calls' = rng_calls + 1
                               /\ draws' = Record(draws, <<RandnDraw(randn)>>)
                               /\ UNCHANGED <<position_vec, p, rand_unif_array, i>>
                          ELSE /\ p' = [w \in DOMAIN den |-> Ratio(num[w], den[w])]
                               /\ \E u \in UniformArrays(p') :
                                     /\ rand_unif_array' = u
                                     /\ draws' = Record(draws, <<RandnDraw(randn), UniformDraw(u)>>)
                               /\ rng_calls' = rng_calls + 2
                               /\ position_vec' =
                                     Accept(p', rand_unif_array', proposed, position_vec)
                               /\ i' = i + 1
                               /\ pc' = IF i + 1 < equilibration_steps.v
                                          THEN "Equilibrating" ELSE "Measuring"
                               /\ UNCHANGED error
    /\ UNCHANGED <<params, alpha, initial_pos, buffers, j, warned, returned, evals, mains, parses>>

\* a store that always writes the first entry
Store_first(buffer, j_, v) == [buffer EXCEPT ![0] = Val(v)]

\* a store that writes every entry of the trajectory
Store_all(buffer, j_, v) == [k \in DOMAIN buffer |-> Val(v)]

\* buffer[j] = v
Store(buffer, j_, v) == [buffer EXCEPT ![j_] = Val(v)]

\* a measurement that does not adopt the alpha the optimizer returns
MeasureStep_keeps_alpha(position_vec_, alpha_, learning_rate_) ==
    LET res == alpha_opt_on_fly(position_vec_, alpha_, learning_rate_)
    IN [alpha |-> alpha_,
        dE_da |-> res[2],
        alpha_entry |-> res[1],
        dE_da_entry |-> res[2],
        E_entry |-> Mean(local_energy_func(position_vec_, alpha_))]

\* a measurement whose energy entry is evaluated at the alpha of the sweeps
MeasureStep_stale_energy(position_vec_, alpha_, learning_rate_) ==
    LET res == alpha_opt_on_fly(position_vec_, alpha_, learning_rate_)
    IN [alpha |-> res[1],
        dE_da |-> res[2],
        alpha_entry |-> res[1],
        dE_da_entry |-> res[2],
        E_entry |-> Mean(local_energy_func(position_vec_, alpha_))]

\* alpha, dE_da = alpha_opt_on_fly(position_vec, alpha, learning_rate) and
\* the three values stored at index j
MeasureStep(position_vec_, alpha_, learning_rate_) ==
    LET res == alpha_opt_on_fly(position_vec_, alpha_, learning_rate_)
    IN [alpha |-> res[1],
        dE_da |-> res[2],
        alpha_entry |-> res[1],
        dE_da_entry |-> res[2],
        E_entry |-> Mean(local_energy_func(position_vec_, res[1]))]

\* the return with the two last trajectories in the other order
metropolis_returns_gradient_first(position_vec_, alpha_, alpha_buffer_, E_buffer_, dE_da_buffer_, initial_pos_) ==
    <<position_vec_, alpha_, alpha_buffer_, dE_da_buffer_, E_buffer_, initial_pos_>>

\* return position_vec, alpha, alpha_buffer, E_buffer, dE_da_buffer, initial_pos
metropolis_returns(position_vec_, alpha_, alpha_buffer_, E_buffer_, dE_da_buffer_, initial_pos_) ==
    <<position_vec_, alpha_, alpha_buffer_, E_buffer_, dE_da_buffer_, initial_pos_>>

\* the measurement of outer step j: the optimizer call and the three stores,
\* and after the last one the return
Measure ==
    /\ pc = "Measuring"
    /\ LET e == alpha_opt_on_fly_raises(alpha, learning_rate)
           m == MeasureStep(position_vec, alpha.v, learning_rate.v)
       IN /\ warned' = IF alpha_opt_on_fly_warns(learning_rate)
                         THEN warned \cup {LearningRateWarning} ELSE warned
          /\ IF e # NoError
               THEN /\ Fail(e)
                    /\ UNCHANGED <<alpha, buffers, j, i>>
               ELSE /\ alpha' = Real(m.alpha)
                    /\ alpha_buffer' = Store(alpha_buffer, j, m.alpha_entry)
                    /\ dE_da_buffer' = Store(dE_da_buffer, j, m.dE_da_entry)
                    /\ E_buffer' = Store(E_buffer, j, m.E_entry)
                    /\ j' = j + 1
                    /\ i' = 0
                    /\ pc' = LoopPc(j + 1)
                    /\ UNCHANGED error
          /\ returned' = IF pc' = "Done"
                           THEN metropolis_returns(position_vec, alpha', alpha_buffer',
                                                   E_buffer', dE_da_buffer', initial_pos)
                           ELSE returned
    /\ UNCHANGED <<params, position_vec, initial_pos, locals, rng_calls>>
    /\ UNCHANGED <<draws, evals, mains, parses>>

Next == Call \/ Validate \/ Initialize \/ Sweep \/ Measure

Spec == Init /\ [][Next]_vars

\* a measurement ends: the run leaves Measuring or advances j, as every step
\* of Measure does; the action is enabled exactly when pc = "Measuring"
MeasureEnds ==
    /\ pc = "Measuring"
    /\ pc' \in {"Equilibrating", "Measuring", "Done", "Error"}
    /\ j' \in {j, j + 1}

\* the interpreter runs the call to its end: a statement that can be executed
\* is executed
FairSpec ==
    /\ Init /\ [][Next]_vars
    /\ WF_vars(Call) /\ WF_vars(Validate) /\ WF_vars(Initialize) /\ WF_vars(Sweep)
    /\ WF_<<pc, j>>(MeasureEnds)

\* ------------------------------------------------- the runs with traced draws
\* the calls whose draws are traced: every count, with (alpha, learning_rate)
\* (2.0, 0.01), (-100.0, 6.5) or (201.0, 0.01)
TracedCalls ==
    {c \in Calls :
        /\ c.nargs = 5
        /\ <<c.alpha, c.learning_rate>> \in
              {<<Real(Lit(2)), Real(Scale \div 100)>>,
               <<Real(Lit(-100)), Real(Lit(6) + (Scale \div 2))>>,
               <<Real(Lit(AlphaHigh + 1)), Real(Scale \div 100)>>}}

TracedInit ==
    /\ EvalIdle
    /\ MainIdle
    /\ ParseIdle
    /\ call \in TracedCalls
    /\ pc = "Call"
    /\ equilibration_steps = Missing /\ numsteps = Missing /\ numwalkers = Missing
    /\ learning_rate = Missing /\ alpha = Missing
    /\ position_vec = <<>> /\ initial_pos = <<>>
    /\ alpha_buffer = <<>> /\ dE_da_buffer = <<>> /\ E_buffer = <<>>
    /\ j = 0 /\ i = 0
    /\ new_position_vec = <<>> /\ denominator = <<>> /\ numerator = <<>>
    /\ p = <<>> /\ rand_unif_array = <<>>
    /\ rng_calls = 0
    /\ warned = {}
    /\ error = NoError
    /\ returned = <<>>
    /\ draws = Traced

TracedSpec == TracedInit /\ [][Next]_vars

\* metropolis as a function of its arguments and of the sequence of draws the
\* generator returns: the state of the run, k the index of the next draw
ReplayStart(call_, draws_) ==
    [error |-> NoError, k |-> 2,
     equilibration_steps |-> call_.equilibration_steps.v,
     numsteps |-> call_.numsteps.v,
     learning_rate |-> call_.learning_rate,
     draws |-> draws_,
     alpha |-> call_.alpha,
     position_vec |-> draws_[1].v,
     initial_pos |-> draws_[1].v,
     alpha_buffer |-> [n \in 0 .. call_.numsteps.v - 1 |-> Unset],
     dE_da_buffer |-> [n \in 0 .. call_.numsteps.v - 1 |-> Unset],
     E_buffer |-> [n \in 0 .. call_.numsteps.v - 1 |-> Unset]]

\* a run that raised before it drew the ensemble
ReplayRaised(call_, e) ==
    [error |-> e, k |-> 1,
     equilibration_steps |-> 0, numsteps |-> 0,
     learning_rate |-> call_.learning_rate, draws |-> <<>>,
     alpha |-> call_.alpha,
     position_vec |-> <<>>, initial_pos |-> <<>>,
     alpha_buffer |-> <<>>, dE_da_buffer |-> <<>>, E_buffer |-> <<>>]

\* the body of the inner loop on the next one or two draws
ReplaySweep(s) ==
    LET randn == s.draws[s.k].v
        proposed == Propose(s.position_vec, randn)
        e == trial_wavefunction_raises(s.alpha)
        den == trial_wavefunction(s.position_vec, s.alpha.v)
        num == trial_wavefunction(proposed, s.alpha.v)
        p_ == [w \in DOMAIN den |-> Ratio(num[w], den[w])]
    IN IF e # NoError THEN [s EXCEPT !.error = e, !.k = s.k + 1]
       ELSE IF AnyZero(den)
           THEN [s EXCEPT !.error = ValueError(DivZeroMsg), !.k = s.k + 1]
       ELSE [s EXCEPT !.position_vec =
                          Accept(p_, s.draws[s.k + 1].v, proposed, s.position_vec),
                      !.k = s.k + 2]

\* the optimizer call and the three stores of outer step j_
ReplayMeasure(s, j_) ==
    LET e == alpha_opt_on_fly_raises(s.alpha, s.learning_rate)
        m == MeasureStep(s.position_vec, s.alpha.v, s.learning_rate.v)
    IN IF e # NoError THEN [s EXCEPT !.error = e]
       ELSE [s EXCEPT !.alpha = Real(m.alpha),
                      !.alpha_buffer = Store(s.alpha_buffer, j_, m.alpha_entry),
                      !.dE_da_buffer = Store(s.dE_da_buffer, j_, m.dE_da_entry),
                      !.E_buffer = Store(s.E_buffer, j_, m.E_entry)]

\* for j in range(numsteps): for i in range(equilibration_steps): ...
RECURSIVE ReplayLoop(_, _, _)
ReplayLoop(s, j_, i_) ==
    IF s.error # NoError \/ j_ >= s.numsteps THEN s
    ELSE IF i_ < s.equilibration_steps THEN ReplayLoop(ReplaySweep(s), j_, i_ + 1)
    ELSE ReplayLoop(ReplayMeasure(s, j_), j_ + 1, 0)

\* the whole call
Replay(call_, draws_) ==
    LET e == metropolis_raises(call_.equilibration_steps, call_.numsteps, call_.numwalkers)
    IN IF metropolis_signature_raises(call_.nargs) # NoError
           THEN ReplayRaised(call_, metropolis_signature_raises(call_.nargs))
       ELSE IF e # NoError THEN ReplayRaised(call_, e)
       ELSE ReplayLoop(ReplayStart(call_, draws_), 0, 0)

\* ------------------------------------------ the evaluators called on their own
MaxLen == 2

\* positions -2.0, 0, 0.5, 2.0, 3.0
EvalPositions == {Lit(-2), 0, Scale \div 2, Lit(2), Lit(3)}

\* the arrays of at most MaxLen positions
EvalArrays == UNION {[1 .. n -> EvalPositions] : n \in 0 .. MaxLen}

\* alpha: -1001, -1000, -2, 0, 1, 200, 201, a str, a list, a complex
EvalAlphaArgs ==
    {Real(Lit(a)) : a \in {AlphaLow - 1, AlphaLow, -2, 0, 1, AlphaHigh, AlphaHigh + 1}}
        \cup {[t |-> ty, v |-> 0] : ty \in {"str", "list", "complex"}}

\* learning_rate: -0.01, 0, 0.01, 1, a str, None, a list, a dict, a complex
EvalLearningRateArgs ==
    {Real(0 - (Scale \div 100)), Real(0), Real(Scale \div 100), Real(Lit(1))}
        \cup {[t |-> ty, v |-> 0] : ty \in {"str", "none", "list", "dict", "complex"}}

NoCall ==
    [nargs |-> 0, equilibration_steps |-> Missing, numsteps |-> Missing,
     numwalkers |-> Missing, alpha |-> Missing, learning_rate |-> Missing,
     step_size |-> Missing]

\* no run of metropolis
RunIdle ==
    /\ pc = "Off" /\ call = NoCall
    /\ equilibration_steps = Missing /\ numsteps = Missing /\ numwalkers = Missing
    /\ learning_rate = Missing /\ alpha = Missing
    /\ position_vec = <<>> /\ initial_pos = <<>>
    /\ alpha_buffer = <<>> /\ dE_da_buffer = <<>> /\ E_buffer = <<>>
    /\ j = 0 /\ i = 0
    /\ new_position_vec = <<>> /\ denominator = <<>> /\ numerator = <<>>
    /\ p = <<>> /\ rand_unif_array = <<>>
    /\ rng_calls = 0 /\ warned = {} /\ error = NoError /\ returned = <<>>
    /\ draws = Untraced

EvalInit ==
    /\ RunIdle
    /\ MainIdle
    /\ ParseIdle
    /\ applied = ""
    /\ arg_x \in EvalArrays
    /\ arg_alpha \in EvalAlphaArgs
    /\ arg_learning_rate \in EvalLearningRateArgs
    /\ ret = NoReturn /\ raised = NoError /\ ret_warned = {}

run == <<pc, params, alpha, position_vec, initial_pos, buffers, j, i, locals,
         rng_calls, warned, error, returned, draws>>

\* the outcome of a call: the exception e if there is one, else the value r
Outcome(e, r) ==
    /\ raised' = e
    /\ ret' = IF e # NoError THEN NoReturn ELSE r

\* trial_wavefunction(x, alpha)
ApplyTrialWavefunction ==
    /\ applied = "" /\ applied' = "trial_wavefunction"
    /\ Outcome(trial_wavefunction_raises(arg_alpha),
               Array(trial_wavefunction(arg_x, arg_alpha.v)))
    /\ UNCHANGED <<run, mains, parses, arg_x, arg_alpha, arg_learning_rate, ret_warned>>

\* the positions numpy divides by without a warning: none is zero (a zero
\* gives inf or nan with a RuntimeWarning, values the arithmetic here lacks)
Nonzero(x) == \A w \in DOMAIN x : x[w] # 0

\* local_energy_func(x, alpha), x of nonzero positions
ApplyLocalEnergyFunc ==
    /\ applied = "" /\ applied' = "local_energy_func"
    /\ Nonzero(arg_x)
    /\ Outcome(local_energy_func_raises(arg_alpha),
               IF arg_alpha.t = "complex" THEN ComplexValued
               ELSE Array(local_energy_func(arg_x, arg_alpha.v)))
    /\ UNCHANGED <<run, mains, parses, arg_x, arg_alpha, arg_learning_rate, ret_warned>>

\* dE_dalpha(x, alpha), x a non-empty array of nonzero positions (np.mean of
\* an empty array is nan with a RuntimeWarning)
ApplyDEDalpha ==
    /\ applied = "" /\ applied' = "dE_dalpha"
    /\ arg_x # <<>> /\ Nonzero(arg_x)
    /\ Outcome(local_energy_func_raises(arg_alpha),
               IF arg_alpha.t = "complex" THEN ComplexValued
               ELSE Scalar(dE_dalpha(arg_x, arg_alpha.v)))
    /\ UNCHANGED <<run, mains, parses, arg_x, arg_alpha, arg_learning_rate, ret_warned>>

\* alpha_opt_on_fly(position_vec, alpha, learning_rate), position_vec a
\* non-empty array of nonzero positions
ApplyAlphaOptOnFly ==
    /\ applied = "" /\ applied' = "alpha_opt_on_fly"
    /\ arg_x # <<>> /\ Nonzero(arg_x)
    /\ LET res == alpha_opt_on_fly(arg_x, arg_alpha.v, arg_learning_rate.v)
       IN Outcome(alpha_opt_on_fly_raises(arg_alpha, arg_learning_rate),
                  IF arg_alpha.t = "complex" THEN ComplexValued
                  ELSE [kind |-> "pair", v |-> <<res[1], res[2]>>])
    /\ ret_warned' = IF alpha_opt_on_fly_warns(arg_learning_rate)
                       THEN {LearningRateWarning} ELSE {}
    /\ UNCHANGED <<run, mains, parses, arg_x, arg_alpha, arg_learning_rate>>

\* the scripts src/local_energy.py and src/wavefunction.py, each with a
\* local_energy_func of its own
StandaloneZeroMsg == "Position x must be nonzero to avoid division by zero."

\* if np.any(x == 0): raise ValueError(...)
standalone_local_energy_func_raises(x) ==
    IF \E w \in DOMAIN x : x[w] = 0 THEN ValueError(StandaloneZeroMsg) ELSE NoError

\* src/local_energy.py: (-1 + alpha * x - (alpha**2) * x / 2) / x, elementwise
standalone_local_energy_func(x, alpha_) ==
    [w \in DOMAIN x |->
        FDiv(Lit(-1) + FMul(alpha_, x[w])
                 - RoundDiv(FMul(FMul(alpha_, alpha_), x[w]), 2),
             x[w])]

\* src/wavefunction.py: (-1 + alpha * x - (alpha**2) * x / 2) / x, elementwise
wavefunction_local_energy_func(x, alpha_) ==
    [w \in DOMAIN x |->
        FDiv(Lit(-1) + FMul(alpha_, x[w])
                 - RoundDiv(FMul(FMul(alpha_, alpha_), x[w]), 2),
             x[w])]

\* local_energy_func(x, alpha) of src/local_energy.py, alpha a real number
ApplyStandaloneLocalEnergyFunc ==
    /\ applied = "" /\ applied' = "local_energy.local_energy_func"
    /\ arg_alpha.t = "real"
    /\ Outcome(standalone_local_energy_func_raises(arg_x),
               Array(standalone_local_energy_func(arg_x, arg_alpha.v)))
    /\ UNCHANGED <<run, mains, parses, arg_x, arg_alpha, arg_learning_rate, ret_warned>>

\* local_energy_func(x, alpha) of src/wavefunction.py, alpha a real number
ApplyWavefunctionLocalEnergyFunc ==
    /\ applied = "" /\ applied' = "wavefunction.local_energy_func"
    /\ arg_alpha.t = "real"
    /\ Outcome(standalone_local_energy_func_raises(arg_x),
               Array(wavefunction_local_energy_func(arg_x, arg_alpha.v)))
    /\ UNCHANGED <<run, mains, parses, arg_x, arg_alpha, arg_learning_rate, ret_warned>>

EvalNext ==
    \/ ApplyTrialWavefunction
    \/ ApplyLocalEnergyFunc
    \/ ApplyDEDalpha
    \/ ApplyAlphaOptOnFly
    \/ ApplyStandaloneLocalEnergyFunc
    \/ ApplyWavefunctionLocalEnergyFunc

EvalSpec == EvalInit /\ [][EvalNext]_vars

\* the program as a whole: a run of metropolis, or one of its evaluators
\* called on its own
EvalCall == pc = "Off" /\ EvalNext

RunOrEvalNext == Call \/ Validate \/ Initialize \/ Sweep \/ Measure \/ EvalCall

RunOrEvalSpec == (Init \/ EvalInit) /\ [][RunOrEvalNext]_vars

\* ------------------------------------------------------ parse_config_file
\* the destinations of the seven simulation options in the namespace
Keys ==
    {"numwalkers", "numsteps", "equilibration_steps", "alpha", "learning_rate",
     "step_size", "output_dir"}

\* the keys parse_config_file looks up, in the order it looks them up
KeyOrder ==
    <<"numwalkers", "numsteps", "equilibration_steps", "alpha", "learning_rate",
      "step_size", "output_dir">>

\* a key of the file that parse_config_file does not look up
OtherKey == "seed"

\* the keys the files of the model hold in their [DEFAULT] section
DefaultKeys == {"alpha"}

\* the texts a key of the file can have: an integer literal, a literal of a
\* float that is no integer literal, a text that is no number; for output_dir
\* a text with a lone % and one with a doubled %; the key that is not looked
\* up has one text
ConfigTexts(key) ==
    CASE key = "output_dir" -> {"results", "50%", "50%%"}
      [] key = OtherKey -> {"5000"}
      [] OTHER -> {"5000", "0.9", "results"}

\* Python values of the dictionary: an int, a float (fixed point), a str
IntValue(n) == [t |-> "int", n |-> n, s |-> ""]
FloatValue(n) == [t |-> "float", n |-> n, s |-> ""]
StrValue(s) == [t |-> "str", n |-> 0, s |-> s]

FileNotFoundError(m) == [kind |-> "FileNotFoundError", msg |-> m]
NotFoundMsg == "Configuration file 'config.ini' not found."

\* the exception of configparser's interpolation
InterpolationSyntaxError(m) == [kind |-> "InterpolationSyntaxError", msg |-> m]

\* config.read(config_path) of a file that configparser rejects: the file
\* "numwalkers = 5000" without a section header; [Simulation] with
\* "alpha = 0.9" and "alpha = 0.5"; [Simulation] with "alpha = 0.9" followed
\* by a second [Simulation]; [Simulation] with the line "numwalkers"
ReadErrors ==
    {[kind |-> "MissingSectionHeaderError",
      msg |-> "File contains no section headers.\nfile: 'config.ini', line: 1\n'numwalkers = 5000\\n'"],
     [kind |-> "DuplicateOptionError",
      msg |-> "While reading from 'config.ini' [line  3]: option 'alpha' in section 'Simulation' already exists"],
     [kind |-> "DuplicateSectionError",
      msg |-> "While reading from 'config.ini' [line  3]: section 'Simulation' already exists"],
     [kind |-> "ParsingError",
      msg |-> "Source contains parsing errors: 'config.ini'\n\t[line  2]: 'numwalkers\\n'"]}

IntLiteralMsg(text) ==
    IF text = "0.9" THEN "invalid literal for int() with base 10: '0.9'"
    ELSE "invalid literal for int() with base 10: 'results'"
FloatLiteralMsg == "could not convert string to float: 'results'"
InterpolationMsg == "'%' must be followed by '%' or '(', found: '%'"

\* int(text)
python_int(text) ==
    IF text = "5000" THEN [error |-> NoError, value |-> IntValue(5000)]
    ELSE [error |-> ValueError(IntLiteralMsg(text)), value |-> StrValue(text)]

\* float(text)
python_float(text) ==
    CASE text = "5000" -> [error |-> NoError, value |-> FloatValue(Lit(5000))]
      [] text = "0.9" -> [error |-> NoError, value |-> FloatValue((9 * Scale) \div 10)]
      [] OTHER -> [error |-> ValueError(FloatLiteralMsg), value |-> StrValue(text)]

\* section[key] of a text: the interpolation of configparser, which turns %%
\* into % and rejects a lone %
interpolated(text) ==
    CASE text = "50%" -> [error |-> InterpolationSyntaxError(InterpolationMsg),
                          value |-> StrValue(text)]
      [] text = "50%%" -> [error |-> NoError, value |-> StrValue("50%")]
      [] OTHER -> [error |-> NoError, value |-> StrValue(text)]

\* every text is kept as it is
Conversion_text(key, text) == [error |-> NoError, value |-> StrValue(text)]

\* what parse_config_file stores under a key from the text of the file
Conversion(key, text) ==
    CASE key \in {"numwalkers", "numsteps", "equilibration_steps"} -> python_int(text)
      [] key \in {"alpha", "learning_rate", "step_size"} -> python_float(text)
      [] OTHER -> interpolated(text)

\* section[key]: the text of [Simulation], else the one of [DEFAULT]
SectionText(file_, key) ==
    IF key \in DOMAIN file_.section THEN file_.section[key] ELSE file_.defaults[key]

\* parse_config_file(config_path): the exception it raises or the dictionary
\* it returns; key in section holds for the keys of [Simulation] and for
\* those of [DEFAULT], which every section inherits; a conversion that fails
\* ends the call at the first such key
parse_config_file(exists_, file_) ==
    IF ~exists_
    THEN [error |-> FileNotFoundError(NotFoundMsg), value |-> <<>>]
    ELSE IF file_.read_error # NoError
    THEN [error |-> file_.read_error, value |-> <<>>]
    ELSE LET present == IF file_.has_section
                        THEN (DOMAIN file_.section \cup DOMAIN file_.defaults) \cap Keys
                        ELSE {}
             failing == {k \in DOMAIN KeyOrder :
                            /\ KeyOrder[k] \in present
                            /\ Conversion(KeyOrder[k],
                                          SectionText(file_, KeyOrder[k])).error # NoError}
         IN  IF failing # {}
             THEN LET first == CHOOSE k \in failing : \A l \in failing : k <= l
                  IN  [error |-> Conversion(KeyOrder[first],
                                            SectionText(file_, KeyOrder[first])).error,
                       value |-> <<>>]
             ELSE [error |-> NoError,
                   value |-> [key \in present |->
                                 Conversion(key, SectionText(file_, key)).value]]

\* the sections a file can hold over a set of keys
Sections(keys) ==
    UNION {{sec \in [ks -> UNION {ConfigTexts(key) : key \in ks}] :
               \A key \in ks : sec[key] \in ConfigTexts(key)} : ks \in SUBSET keys}

\* the files: one that configparser rejects; one without a [Simulation]
\* section, with or without keys in [DEFAULT]; one with [Simulation] and any
\* of the keys, with or without keys in [DEFAULT]
ConfigFiles ==
    {[read_error |-> e, has_section |-> FALSE, section |-> <<>>, defaults |-> <<>>] :
        e \in ReadErrors}
    \cup
    {[read_error |-> NoError, has_section |-> FALSE, section |-> <<>>, defaults |-> d] :
        d \in Sections(DefaultKeys)}
    \cup
    {[read_error |-> NoError, has_section |-> TRUE, section |-> sec, defaults |-> d] :
        sec \in Sections(Keys \cup {OtherKey}), d \in Sections(DefaultKeys)}

ConfigInit ==
    /\ RunIdle
    /\ EvalIdle
    /\ MainIdle
    /\ parse_pc = "Call"
    /\ path_exists \in BOOLEAN
    /\ config_file \in ConfigFiles
    /\ ~path_exists => config_file = NoSection
    /\ config_params = <<>>
    /\ parse_error = NoError

ParseConfigFile ==
    /\ parse_pc = "Call"
    /\ LET r == parse_config_file(path_exists, config_file)
       IN  /\ parse_pc' = IF r.error = NoError THEN "Returned" ELSE "Raised"
           /\ config_params' = r.value
           /\ parse_error' = r.error
    /\ UNCHANGED <<run, evals, mains, path_exists, config_file>>

ConfigNext == ParseConfigFile

ConfigSpec == ConfigInit /\ [][ConfigNext]_vars

\* ---------------------------------------------------------------- main
\* the destinations of the namespace: the seven options and config
Destinations == Keys \cup {"config"}

\* the option string argparse accepts for a destination
OptionString(key) ==
    CASE key = "config" -> "--config"
      [] key = "numwalkers" -> "--numwalkers"
      [] key = "numsteps" -> "--numsteps"
      [] key = "equilibration_steps" -> "--equilibration_steps"
      [] key = "alpha" -> "--alpha"
      [] key = "learning_rate" -> "--learning-rate"
      [] key = "step_size" -> "--step-size"
      [] OTHER -> "--output-dir"

\* a prefix of the option string that argparse accepts as the option
\* (allow_abbrev), being the prefix of no other option
Abbreviation(key) ==
    CASE key = "config" -> "--conf"
      [] key = "numwalkers" -> "--numw"
      [] key = "numsteps" -> "--nums"
      [] key = "equilibration_steps" -> "--equil"
      [] key = "alpha" -> "--alph"
      [] key = "learning_rate" -> "--learn"
      [] key = "step_size" -> "--step"
      [] OTHER -> "--out"

\* f"--{key}"
DashKey(key) ==
    CASE key = "config" -> "--config"
      [] key = "numwalkers" -> "--numwalkers"
      [] key = "numsteps" -> "--numsteps"
      [] key = "equilibration_steps" -> "--equilibration_steps"
      [] key = "alpha" -> "--alpha"
      [] key = "learning_rate" -> "--learning_rate"
      [] key = "step_size" -> "--step_size"
      [] OTHER -> "--output_dir"

\* the options written in another way than "--option value", at most
MaxOtherForms == 1

\* the text of the value given on the command line; for config the path
ArgText(key, path) ==
    CASE key = "config" -> path
      [] key \in {"numwalkers", "numsteps", "equilibration_steps"} -> "7"
      [] key \in {"alpha", "learning_rate", "step_size"} -> "0.3"
      [] OTHER -> "out"

\* the elements of sys.argv that one option contributes
Tokens(key, form, path) ==
    CASE form = "separate" -> {OptionString(key), ArgText(key, path)}
      [] form = "equals" -> {OptionString(key) \o "=" \o ArgText(key, path)}
      [] OTHER -> {Abbreviation(key), ArgText(key, path)}

\* sys.argv after the program name, as the set of its elements; argv_ gives
\* for each option on the command line the way it is written
SysArgv(argv_, path) ==
    UNION {Tokens(key, argv_[key], path) : key \in DOMAIN argv_}

\* the value of an option by where it comes from: the command line, the
\* config file, the default of add_argument
CliValue(key) == [from |-> "cli", key |-> key]
ConfigValue(key) == [from |-> "config", key |-> key]
DefaultValue(key) == [from |-> "default", key |-> key]

\* None, the default of --config
None == DefaultValue("config")

\* the files --config can name: one that configparser rejects, one without
\* the section, one with any of the keys well-formed, with a key that only
\* [DEFAULT] holds, with a count that is no integer literal
MainConfigFiles ==
    {[read_error |-> e, has_section |-> FALSE, section |-> <<>>, defaults |-> <<>>] :
        e \in ReadErrors}
        \cup {NoSection}
        \cup {[read_error |-> NoError, has_section |-> TRUE,
               section |-> [key \in ks |->
                               CASE key \in {"numwalkers", "numsteps", "equilibration_steps"} -> "5000"
                                 [] key \in {"alpha", "learning_rate", "step_size"} -> "0.9"
                                 [] OTHER -> "results"],
               defaults |-> <<>>] :
                ks \in SUBSET Keys}
        \cup {[read_error |-> NoError, has_section |-> s, section |-> <<>>,
               defaults |-> [key \in {"alpha"} |-> "0.9"]] : s \in BOOLEAN}
        \cup {[read_error |-> NoError, has_section |-> TRUE,
               section |-> [key \in {"numwalkers"} |-> "0.9"], defaults |-> <<>>]}

\* --config with the empty path, with the path of no file, with a file
MainConfigs ==
    {[path |-> path_, exists |-> FALSE, file |-> NoSection] : path_ \in {"", "config.ini"}}
        \cup {[path |-> "config.ini", exists |-> TRUE, file |-> f] : f \in MainConfigFiles}

\* the command lines: any of the eight options, each written in one way:
\* "--option value", "--option=value", or an abbreviation followed by the value
CommandLines ==
    {a \in UNION {[ks -> {"separate", "equals", "abbreviated"}] : ks \in SUBSET Destinations} :
        Cardinality({key \in DOMAIN a : a[key] # "separate"}) <= MaxOtherForms}

MainInit ==
    /\ RunIdle
    /\ EvalIdle
    /\ ParseIdle
    /\ main_pc = "Parse"
    /\ argv \in CommandLines
    /\ config \in MainConfigs
    /\ "config" \notin DOMAIN argv => config.path = ""
    /\ args = <<>> /\ config_args = <<>> /\ passed = <<>>
    /\ main_error = NoError

\* args = parser.parse_args(); the default of config is None
ParseArgs ==
    /\ main_pc = "Parse"
    /\ args' = [key \in Destinations |->
                   IF key \in DOMAIN argv THEN CliValue(key) ELSE DefaultValue(key)]
    /\ main_pc' = "Merge"
    /\ UNCHANGED <<run, evals, parses, argv, config, config_args, passed, main_error>>

\* config_args = parse_config_file(args.config) if args.config, else {}: the
\* exception, or the keys of the dictionary; args.config is false for None
\* and for the empty path
ParsedConfig(args_, config_) ==
    IF args_["config"] # None /\ config_.path # ""
    THEN LET r == parse_config_file(config_.exists, config_.file)
         IN  [error |-> r.error, keys |-> DOMAIN r.value]
    ELSE [error |-> NoError, keys |-> {}]

\* the dictionary after the loop over vars(args): the config file's values,
\* overwritten for each of the eight destinations with f"--{key}" in sys.argv
\* whose value is not None
MergedConfigArgs(args_, sys_argv, keys) ==
    [key \in keys \cup {k \in Destinations : DashKey(k) \in sys_argv /\ args_[k] # None} |->
        IF DashKey(key) \in sys_argv /\ args_[key] # None THEN args_[key]
        ELSE ConfigValue(key)]

\* the merge of the config file and the command line into the namespace; an
\* exception of parse_config_file ends main
MergeConfig ==
    /\ main_pc = "Merge"
    /\ LET parsed == ParsedConfig(args, config)
       IN  IF parsed.error # NoError
           THEN /\ main_pc' = "Raised"
                /\ main_error' = parsed.error
                /\ UNCHANGED <<args, config_args>>
           ELSE /\ config_args' = MergedConfigArgs(args, SysArgv(argv, config.path), parsed.keys)
                /\ args' = [key \in Destinations |->
                               IF key \in DOMAIN config_args' THEN config_args'[key]
                               ELSE args[key]]
                /\ main_pc' = "Call"
                /\ UNCHANGED main_error
    /\ UNCHANGED <<run, evals, parses, argv, config, passed>>

\* metropolis(args.equilibration_steps, args.numsteps, args.numwalkers,
\* args.alpha, args.learning_rate, args.step_size); args.output_dir is what
\* the output functions would get
CallMetropolis ==
    /\ main_pc = "Call"
    /\ passed' = [key \in Keys |-> args[key]]
    /\ main_error' = metropolis_signature_raises(6)
    /\ main_pc' = "Called"
    /\ UNCHANGED <<run, evals, parses, argv, config, args, config_args>>

MainNext == ParseArgs \/ MergeConfig \/ CallMetropolis

MainSpec == MainInit /\ [][MainNext]_vars

\* ----------------------------------- the scripts with a metropolis of their own
\* src/simulation.py and src/metropolis.py each define
\* metropolis(equilibration_steps, numsteps, numwalkers, alpha): no check of
\* the counts or of the learning rate, no warning, the learning rate the
\* literal 0.01.  A call record of these runs names the module in call.module.

\* the literal 0.01 of alpha = alpha - 0.01 * dE_da
FixedLearningRate == Scale \div 100

\* src/simulation.py: the one check of trial_wavefunction, alpha a real number
simulation_trial_wavefunction_raises(alpha_) ==
    IF alpha_.v < Lit(-1000)
        THEN ValueError("Too large negative alpha causes numerical instability.")
    ELSE NoError

\* src/simulation.py: np.where(x > 0, np.exp(-alpha * x), 0)
simulation_trial_wavefunction(x, alpha_) ==
    [w \in DOMAIN x |-> IF x[w] > 0 THEN NpExp(FMul(0 - alpha_, x[w])) ELSE Zero]

\* src/simulation.py: -1/x - (alpha**2)/2 + alpha/x
simulation_local_energy_func(x, alpha_) ==
    [w \in DOMAIN x |->
        FDiv(Lit(-1), x[w]) - RoundDiv(FMul(alpha_, alpha_), 2) + FDiv(alpha_, x[w])]

\* src/simulation.py: 2 * (mean(El * ln_wf) - mean(El) * mean(ln_wf))
simulation_dE_dalpha(x, alpha_) ==
    LET El == simulation_local_energy_func(x, alpha_)
        ln_wf == [w \in DOMAIN x |-> 0 - x[w]]
        prod == [w \in DOMAIN x |-> FMul(El[w], ln_wf[w])]
    IN 2 * (Mean(prod) - FMul(Mean(El), Mean(ln_wf)))

\* src/simulation.py: alpha_opt_on_fly(position_vec, alpha), the pair it returns
simulation_alpha_opt_on_fly(position_vec_, alpha_) ==
    LET dE_da == simulation_dE_dalpha(position_vec_, alpha_)
    IN <<alpha_ - FMul(FixedLearningRate, dE_da), dE_da>>

\* src/wavefunction.py: if np.any(x <= 0): raise ValueError(...)
wavefunction_trial_wavefunction_raises(x) ==
    IF \E w \in DOMAIN x : x[w] <= 0
    THEN ValueError("Negative and 0 values for the distance are not allowed for this physical system.")
    ELSE NoError

\* src/wavefunction.py: np.exp(-alpha * x)
wavefunction_trial_wavefunction(x, alpha_) ==
    [w \in DOMAIN x |-> NpExp(FMul(0 - alpha_, x[w]))]

\* src/dE_dalpha.py: the covariance with the local energy of src/local_energy.py
standalone_dE_dalpha(x, alpha_) ==
    LET El == standalone_local_energy_func(x, alpha_)
        ln_wf == [w \in DOMAIN x |-> 0 - x[w]]
        prod == [w \in DOMAIN x |-> FMul(El[w], ln_wf[w])]
    IN 2 * (Mean(prod) - FMul(Mean(El), Mean(ln_wf)))

\* src/alpha_optimization.py: alpha_opt_on_fly(position_vec, alpha)
standalone_alpha_opt_on_fly(position_vec_, alpha_) ==
    LET dE_da == standalone_dE_dalpha(position_vec_, alpha_)
    IN <<alpha_ - FMul(FixedLearningRate, dE_da), dE_da>>

\* src/metropolis.py: np.where(new_position_vec > 0, new_position_vec, position_vec)
ValidMoves(new_position_vec_, position_vec_) ==
    [w \in DOMAIN position_vec_ |->
        IF new_position_vec_[w] > 0 THEN new_position_vec_[w] ELSE position_vec_[w]]

\* the counts of these calls: integers, numsteps from 0 and equilibration_steps
\* from -1 (range() of either is empty), numwalkers from 1
FourParamCounts ==
    {c \in [equilibration_steps : -1 .. MaxEquilSteps, numsteps : 0 .. MaxNumSteps,
            numwalkers : 1 .. MaxWalkers] :
        c.equilibration_steps * c.numsteps * c.numwalkers <= MaxWork}

\* alpha of these calls, a float: 2.0, -10.0 and 201.0 in both modules, and in
\* src/simulation.py also 400.0 (exp(-400 * x) is 0.0 at every initial
\* position) and -1001.0 (below the one bound that trial_wavefunction checks)
FourParamAlphas(module) ==
    {Lit(2), Lit(-10), Lit(201)}
        \cup (IF module = "simulation" THEN {Lit(400), Lit(-1001)} ELSE {})

\* the calls of the metropolis of each module, and one call with a fifth argument
FourParamCalls ==
    UNION {
    {[module |-> module, nargs |-> 4,
      equilibration_steps |-> [t |-> "int", v |-> c.equilibration_steps],
      numsteps |-> [t |-> "int", v |-> c.numsteps],
      numwalkers |-> [t |-> "int", v |-> c.numwalkers],
      alpha |-> Real(a), learning_rate |-> Missing, step_size |-> Missing] :
        c \in FourParamCounts, a \in FourParamAlphas(module)}
    \cup
    {[module |-> module, nargs |-> 5,
      equilibration_steps |-> [t |-> "int", v |-> 1],
      numsteps |-> [t |-> "int", v |-> 1],
      numwalkers |-> [t |-> "int", v |-> 1],
      alpha |-> Real(Lit(2)), learning_rate |-> Real(FixedLearningRate),
      step_size |-> Missing]}
    : module \in {"simulation", "metropolis"}}

\* the draws of these runs are recorded
FourParamInit ==
    /\ EvalIdle
    /\ MainIdle
    /\ ParseIdle
    /\ call \in FourParamCalls
    /\ pc = "Call"
    /\ equilibration_steps = Missing /\ numsteps = Missing /\ numwalkers = Missing
    /\ learning_rate = Missing /\ alpha = Missing
    /\ position_vec = <<>> /\ initial_pos = <<>>
    /\ alpha_buffer = <<>> /\ dE_da_buffer = <<>> /\ E_buffer = <<>>
    /\ j = 0 /\ i = 0
    /\ new_position_vec = <<>> /\ denominator = <<>> /\ numerator = <<>>
    /\ p = <<>> /\ rand_unif_array = <<>>
    /\ rng_calls = 0
    /\ warned = {}
    /\ error = NoError
    /\ returned = <<>>
    /\ draws = Traced

\* the signature metropolis(equilibration_steps, numsteps, numwalkers, alpha)
four_param_signature_raises(nargs) ==
    IF nargs > 4 THEN TypeError("metropolis() takes 4 positional arguments but 5 were given") ELSE NoError

\* the call binds the four parameters; nothing is validated
FourParamCall ==
    /\ pc = "Call"
    /\ IF four_param_signature_raises(call.nargs) # NoError
         THEN /\ Fail(four_param_signature_raises(call.nargs))
              /\ UNCHANGED <<equilibration_steps, numsteps, numwalkers, alpha>>
         ELSE /\ pc' = "Initializing"
              /\ equilibration_steps' = call.equilibration_steps
              /\ numsteps' = call.numsteps
              /\ numwalkers' = call.numwalkers
              /\ alpha' = call.alpha
              /\ UNCHANGED error
    /\ UNCHANGED <<call, learning_rate, position_vec, initial_pos, buffers, j, i, locals>>
    /\ UNCHANGED <<rng_calls, warned, returned, draws, evals, mains, parses>>

\* the initial draw and the three buffers; with numsteps = 0 the loops are
\* empty and the function returns at once
FourParamInitialize ==
    /\ pc = "Initializing"
    /\ \E pos \in [1 .. numwalkers.v -> InitialPositions] :
          /\ position_vec' = pos
          /\ initial_pos' = pos
          /\ draws' = Record(draws, <<UniformDraw(pos)>>)
    /\ alpha_buffer' = [k \in 0 .. numsteps.v - 1 |-> Unset]
    /\ dE_da_buffer' = [k \in 0 .. numsteps.v - 1 |-> Unset]
    /\ E_buffer' = [k \in 0 .. numsteps.v - 1 |-> Unset]
    /\ rng_calls' = rng_calls + 1
    /\ j' = 0 /\ i' = 0
    /\ pc' = LoopPc(0)
    /\ returned' = IF pc' = "Done"
                     THEN metropolis_returns(position_vec', alpha, alpha_buffer',
                                             E_buffer', dE_da_buffer', initial_pos')
                     ELSE returned
    /\ UNCHANGED <<params, alpha, locals, warned, error, evals, mains, parses>>

\* src/simulation.py: one sweep of the inner loop
SimulationSweep ==
    /\ pc = "Equilibrating"
    /\ call.module = "simulation"
    /\ \E randn \in [1 .. numwalkers.v -> RandnDraws] :
        LET proposed == Propose(position_vec, randn)
            e == simulation_trial_wavefunction_raises(alpha)
            den == simulation_trial_wavefunction(position_vec, alpha.v)
            num == simulation_trial_wavefunction(proposed, alpha.v)
        IN /\ new_position_vec' = proposed
           /\ IF e # NoError
                THEN /\ Fail(e)
                     /\ rng_calls' = rng_calls + 1
                     /\ draws' = Record(draws, <<RandnDraw(randn)>>)
                     /\ UNCHANGED <<position_vec, denominator, numerator, p,
                                    rand_unif_array, i>>
                ELSE /\ denominator' = den
                     /\ numerator' = num
                     /\ IF AnyZero(den)
                          THEN /\ Fail(ValueError(DivZeroMsg))
                               /\ rng_calls' = rng_calls + 1
                               /\ draws' = Record(draws, <<RandnDraw(randn)>>)
                               /\ UNCHANGED <<position_vec, p, rand_unif_array, i>>
                          ELSE /\ p' = [w \in DOMAIN den |-> Ratio(num[w], den[w])]
                               /\ \E u \in UniformArrays(p') :
                                     /\ rand_unif_array' = u
                                     /\ draws' = Record(draws, <<RandnDraw(randn), UniformDraw(u)>>)
                               /\ rng_calls' = rng_calls + 2
                               /\ position_vec' =
                                     Accept(p', rand_unif_array', proposed, position_vec)
                               /\ i' = i + 1
                               /\ pc' = IF i + 1 < equilibration_steps.v
                                          THEN "Equilibrating" ELSE "Measuring"
                               /\ UNCHANGED error
    /\ UNCHANGED <<params, alpha, initial_pos, buffers, j, warned, returned, evals, mains, parses>>

\* src/metropolis.py: one sweep of the inner loop; a proposal at or below 0
\* is replaced by the walker's position, and the ratio is taken unchecked
MetropolisSweep ==
    /\ pc = "Equilibrating"
    /\ call.module = "metropolis"
    /\ \E randn \in [1 .. numwalkers.v -> RandnDraws] :
        LET proposed == ValidMoves(Propose(position_vec, randn), position_vec)
            e_num == wavefunction_trial_wavefunction_raises(proposed)
            e_den == wavefunction_trial_wavefunction_raises(position_vec)
            num == wavefunction_trial_wavefunction(proposed, alpha.v)
            den == wavefunction_trial_wavefunction(position_vec, alpha.v)
        IN /\ new_position_vec' = proposed
           /\ IF e_num # NoError \/ e_den # NoError
                THEN /\ Fail(IF e_num # NoError THEN e_num ELSE e_den)
                     /\ rng_calls' = rng_calls + 1
                     /\ draws' = Record(draws, <<RandnDraw(randn)>>)
                     /\ UNCHANGED <<position_vec, p, rand_unif_array, i>>
                ELSE /\ p' = [w \in DOMAIN den |-> Ratio(num[w], den[w])]
                     /\ \E u \in UniformArrays(p') :
                           /\ rand_unif_array' = u
                           /\ draws' = Record(draws, <<RandnDraw(randn), UniformDraw(u)>>)
                     /\ rng_calls' = rng_calls + 2
                     /\ position_vec' =
                           Accept(p', rand_unif_array', proposed, position_vec)
                     /\ i' = i + 1
                     /\ pc' = IF i + 1 < equilibration_steps.v
                                THEN "Equilibrating" ELSE "Measuring"
                     /\ UNCHANGED error
    /\ UNCHANGED <<params, alpha, initial_pos, buffers, j, denominator, numerator>>
    /\ UNCHANGED <<warned, returned, evals, mains, parses>>

\* src/simulation.py: alpha, dE_da = alpha_opt_on_fly(position_vec, alpha) and
\* the three values stored at index j
SimulationMeasureStep(position_vec_, alpha_) ==
    LET res == simulation_alpha_opt_on_fly(position_vec_, alpha_)
    IN [alpha |-> res[1],
        dE_da |-> res[2],
        alpha_entry |-> res[1],
        dE_da_entry |-> res[2],
        E_entry |-> Mean(simulation_local_energy_func(position_vec_, res[1]))]

\* src/metropolis.py: the same statements on the functions of
\* src/alpha_optimization.py and src/local_energy.py
MetropolisMeasureStep(position_vec_, alpha_) ==
    LET res == standalone_alpha_opt_on_fly(position_vec_, alpha_)
    IN [alpha |-> res[1],
        dE_da |-> res[2],
        alpha_entry |-> res[1],
        dE_da_entry |-> res[2],
        E_entry |-> Mean(standalone_local_energy_func(position_vec_, res[1]))]

\* src/simulation.py: the measurement of outer step j, and after the last one
\* the return
SimulationMeasure ==
    /\ pc = "Measuring"
    /\ call.module = "simulation"
    /\ LET m == SimulationMeasureStep(position_vec, alpha.v)
       IN /\ alpha' = Real(m.alpha)
          /\ alpha_buffer' = Store(alpha_buffer, j, m.alpha_entry)
          /\ dE_da_buffer' = Store(dE_da_buffer, j, m.dE_da_entry)
          /\ E_buffer' = Store(E_buffer, j, m.E_entry)
    /\ j' = j + 1
    /\ i' = 0
    /\ pc' = LoopPc(j + 1)
    /\ returned' = IF pc' = "Done"
                     THEN metropolis_returns(position_vec, alpha', alpha_buffer',
                                             E_buffer', dE_da_buffer', initial_pos)
                     ELSE returned
    /\ UNCHANGED <<params, position_vec, initial_pos, locals, rng_calls, warned, error>>
    /\ UNCHANGED <<draws, evals, mains, parses>>

\* src/metropolis.py: the measurement of outer step j, and after the last one
\* the return; local_energy_func raises at a position equal to 0
MetropolisMeasure ==
    /\ pc = "Measuring"
    /\ call.module = "metropolis"
    /\ LET e == standalone_local_energy_func_raises(position_vec)
           m == MetropolisMeasureStep(position_vec, alpha.v)
       IN IF e # NoError
            THEN /\ Fail(e)
                 /\ UNCHANGED <<alpha, buffers, j, i>>
            ELSE /\ alpha' = Real(m.alpha)
                 /\ alpha_buffer' = Store(alpha_buffer, j, m.alpha_entry)
                 /\ dE_da_buffer' = Store(dE_da_buffer, j, m.dE_da_entry)
                 /\ E_buffer' = Store(E_buffer, j, m.E_entry)
                 /\ j' = j + 1
                 /\ i' = 0
                 /\ pc' = LoopPc(j + 1)
                 /\ UNCHANGED error
    /\ returned' = IF pc' = "Done"
                     THEN metropolis_returns(position_vec, alpha', alpha_buffer',
                                             E_buffer', dE_da_buffer', initial_pos)
                     ELSE returned
    /\ UNCHANGED <<params, position_vec, initial_pos, locals, rng_calls, warned>>
    /\ UNCHANGED <<draws, evals, mains, parses>>

FourParamNext ==
    \/ FourParamCall
    \/ FourParamInitialize
    \/ SimulationSweep
    \/ MetropolisSweep
    \/ SimulationMeasure
    \/ MetropolisMeasure

FourParamSpec == FourParamInit /\ [][FourParamNext]_vars

\* ================================================================ claims
Running == pc \in {"Equilibrating", "Measuring", "Done"}
Walkers == DOMAIN position_vec

\* a step that is one completed equilibration sweep
SweepDone == pc = "Equilibrating" /\ pc' # "Error"

\* ------------------------------------------------------------------- C1
\* C1: every walker position is strictly positive at every point of a run,
\* and a sweep never moves a walker to a proposal at x <= 0: that walker
\* keeps its position.
C1_PositionsPositive ==
    /\ [](\A w \in Walkers : position_vec[w] > 0)
    /\ [][SweepDone =>
            \A w \in Walkers :
                new_position_vec'[w] <= 0 => position_vec'[w] = position_vec[w]]_vars

\* a sweep has completed in which a walker was proposed a position <= 0 with
\* the most favourable uniform draw (0.0), and the walker is still at x > 0
C1_Witness ==
    /\ Running
    /\ \E w \in DOMAIN p :
          /\ new_position_vec[w] <= 0
          /\ rand_unif_array[w] = Zero
          /\ position_vec[w] > 0

\* ------------------------------------------------------------------- C2
\* C2: a sweep that finds the wavefunction exactly zero at a walker's current
\* position ends the run in that sweep with the ValueError 'Division by zero
\* detected in p calculation.', forming no ratio, drawing no uniform numbers
\* and changing no position; a failed run takes no further step.
C2_ZeroDenominatorFatal ==
    /\ [][(/\ pc = "Equilibrating"
           /\ trial_wavefunction_raises(alpha) = NoError
           /\ \E w \in Walkers :
                 position_vec[w] <= 0 \/ NpExp(FMul(0 - alpha.v, position_vec[w])) = Zero)
          => /\ pc' = "Error"
             /\ error' = ValueError(DivZeroMsg)
             /\ p' = p
             /\ rand_unif_array' = rand_unif_array
             /\ position_vec' = position_vec
             /\ UNCHANGED <<alpha, buffers, j, i>>]_vars
    /\ [][pc # "Error"]_vars

\* a run ended by the zero-denominator error after at least one accepted move
C2_Witness ==
    /\ pc = "Error"
    /\ error = ValueError(DivZeroMsg)
    /\ position_vec # initial_pos

\* ------------------------------------------------------------------- C3
\* p > u for a ratio p and a uniform draw u of [0, 1), written out
C3_Exceeds(p_, u_) ==
    \/ p_.k = "inf"
    \/ p_.k = "exp" /\ u_.k = "zero"
    \/ p_.k = "exp" /\ u_.k = "exp" /\ p_.q > u_.q

\* p >= 1
C3_AtLeastOne(p_) == p_.k = "inf" \/ (p_.k = "exp" /\ p_.q >= 0)

\* C3: in every completed sweep each walker moves to its proposal exactly when
\* its ratio p = Psi(proposed)/Psi(current) strictly exceeds its uniform draw,
\* keeps its position otherwise (p == u included), and always moves when p >= 1.
C3_AcceptExactlyWhenGreater ==
    [][SweepDone =>
        \A w \in Walkers :
            /\ p'[w] = Ratio(trial_wavefunction(new_position_vec', alpha.v)[w],
                             trial_wavefunction(position_vec, alpha.v)[w])
            /\ position_vec'[w] =
                  IF C3_Exceeds(p'[w], rand_unif_array'[w]) THEN new_position_vec'[w]
                  ELSE position_vec[w]
            /\ C3_AtLeastOne(p'[w]) => position_vec'[w] = new_position_vec'[w]]_vars

\* a completed sweep with a tie p == u < 1 (the walker stayed) for one walker
C3_Witness ==
    /\ Running
    /\ \E w \in DOMAIN p :
          /\ p[w].k = "exp" /\ p[w].q < 0
          /\ rand_unif_array[w] = SameAsRatio
          /\ position_vec[w] # new_position_vec[w]

\* ------------------------------------------------------------------- C4
\* C4: a run that has consumed random numbers can end in no error but the
\* zero-denominator error: every validation failure comes before any draw.
C4_ValidationBeforeRandomness ==
    (pc = "Error" /\ rng_calls > 0) => error = ValueError(DivZeroMsg)

\* ------------------------------------------------------------------- C5
InRange(v) == Lit(AlphaLow) <= v /\ v <= Lit(AlphaHigh)

\* C5: no evaluator ever uses an alpha outside [-1000, 200]: the alpha at
\* which the local energy of a written entry was evaluated is within the range.
C5_AlphaInRangeBeforeUse ==
    \A k \in DOMAIN E_buffer : E_buffer[k].set => InRange(alpha_buffer[k].v)

\* ------------------------------------------------------------------- C6
NothingStarted ==
    /\ position_vec = <<>> /\ initial_pos = <<>>
    /\ alpha_buffer = <<>> /\ dE_da_buffer = <<>> /\ E_buffer = <<>>
    /\ rng_calls = 0

Validated == call.nargs = 5 /\ pc \notin {"Call", "Validating"}

\* C6: a count that is not an int ends the run with a TypeError; otherwise
\* numsteps <= 0 or numwalkers <= 0 ends it with a ValueError; otherwise
\* equilibration_steps < 0 ends it with a ValueError; in each case no ensemble
\* is drawn and no trajectory is allocated or written.
C6_InvalidCountsRejected ==
    Validated =>
        IF equilibration_steps.t # "int" \/ numsteps.t # "int" \/ numwalkers.t # "int"
            THEN pc = "Error" /\ error.kind = "TypeError" /\ NothingStarted
        ELSE IF numsteps.v <= 0 \/ numwalkers.v <= 0
            THEN pc = "Error" /\ error.kind = "ValueError" /\ NothingStarted
        ELSE IF equilibration_steps.v < 0
            THEN pc = "Error" /\ error.kind = "ValueError" /\ NothingStarted
        ELSE TRUE

\* a call with valid numsteps and numwalkers and equilibration_steps = -1 has
\* been rejected
C6_Witness ==
    /\ pc = "Error"
    /\ equilibration_steps = [t |-> "int", v |-> -1]
    /\ numsteps.t = "int" /\ numsteps.v > 0
    /\ numwalkers.t = "int" /\ numwalkers.v > 0

\* ------------------------------------------------------------------- C7
AllWritten(buffer) ==
    /\ DOMAIN buffer = 0 .. numsteps.v - 1
    /\ \A k \in DOMAIN buffer : buffer[k].set

ValidInputs ==
    /\ equilibration_steps.t = "int" /\ numsteps.t = "int" /\ numwalkers.t = "int"
    /\ numsteps.v > 0 /\ numwalkers.v > 0 /\ equilibration_steps.v >= 0
    /\ call.alpha.t = "real" /\ InRange(call.alpha.v)
    /\ learning_rate.t = "real" /\ learning_rate.v >= 0

\* C7: a run with equilibration_steps == 0 and otherwise valid inputs has been
\* warned, never fails, runs no sweep, raises nothing in its measurements, and
\* when done holds three trajectories of numsteps written entries.
C7_ZeroEquilibrationCompletes ==
    (Validated /\ ValidInputs /\ equilibration_steps.v = 0) =>
        /\ EquilWarning \in warned
        /\ pc # "Error"
        /\ pc \in {"Initializing", "Measuring", "Done"}
        /\ pc = "Measuring" => alpha_opt_on_fly_raises(alpha, learning_rate) = NoError
        /\ pc = "Done" =>
              AllWritten(alpha_buffer) /\ AllWritten(dE_da_buffer) /\ AllWritten(E_buffer)

\* a run of the largest numsteps with equilibration_steps == 0 is done
C7_Witness ==
    /\ pc = "Done"
    /\ equilibration_steps.v = 0
    /\ numsteps.v = MaxNumSteps
    /\ EquilWarning \in warned

\* ------------------------------------------------------------------- C8
Allocated == alpha_buffer # <<>>

\* the step writes entry j of the buffer, and no other entry
WritesOnlyIndexJ(buffer, buffer_) ==
    /\ DOMAIN buffer_ = DOMAIN buffer
    /\ ~buffer[j].set /\ buffer_[j].set
    /\ \A k \in DOMAIN buffer : k # j => buffer_[k] = buffer[k]

\* C8: the three trajectories are allocated once with indices 0..numsteps-1;
\* they change only in the measurement of outer step j, which writes exactly
\* entry j of each, entries being written in increasing order and never
\* overwritten; a completed run has written every entry.
C8_TrajectoriesWrittenOncePerStep ==
    /\ [](Allocated =>
            \A b \in {alpha_buffer, dE_da_buffer, E_buffer} :
                /\ DOMAIN b = 0 .. numsteps.v - 1
                /\ \A k \in DOMAIN b : b[k].set <=> k < j)
    /\ [][buffers' # buffers =>
            \/ /\ pc = "Initializing"
               /\ ~Allocated
               /\ \A b \in {alpha_buffer', dE_da_buffer', E_buffer'} :
                     b = [k \in 0 .. numsteps.v - 1 |-> Unset]
            \/ /\ pc = "Measuring"
               /\ j' = j + 1
               /\ WritesOnlyIndexJ(alpha_buffer, alpha_buffer')
               /\ WritesOnlyIndexJ(dE_da_buffer, dE_da_buffer')
               /\ WritesOnlyIndexJ(E_buffer, E_buffer')]_vars
    /\ [](pc = "Done" =>
            AllWritten(alpha_buffer) /\ AllWritten(dE_da_buffer) /\ AllWritten(E_buffer))

\* a run of the largest numsteps with sweeps is done
C8_Witness ==
    /\ pc = "Done"
    /\ numsteps.v = MaxNumSteps
    /\ equilibration_steps.v > 0
    /\ alpha_buffer[0] # alpha_buffer[numsteps.v - 1]

\* ------------------------------------------------------------------- C9
\* C9: the measurement of outer step j stores at index j the alpha and the
\* gradient the optimizer returns for the current ensemble, alpha and learning
\* rate, adopts that alpha, and stores at index j the mean local energy of the
\* same ensemble (evaluated at the alpha stored at index j), leaving the
\* ensemble as it is; the final alpha is the last entry of the alpha trajectory.
C9_MeasurementStoresOptimizerResult ==
    /\ [][(pc = "Measuring" /\ pc' # "Error") =>
            LET res == alpha_opt_on_fly(position_vec, alpha.v, learning_rate.v)
            IN /\ alpha_buffer'[j] = Val(res[1])
               /\ dE_da_buffer'[j] = Val(res[2])
               /\ alpha' = Real(res[1])
               /\ E_buffer'[j] =
                     Val(Mean(local_energy_func(position_vec, alpha_buffer'[j].v)))
               /\ position_vec' = position_vec]_vars
    /\ [](pc = "Done" => alpha = Real(alpha_buffer[numsteps.v - 1].v))

\* a completed run whose last measurement changed alpha
C9_Witness ==
    /\ pc = "Done"
    /\ numsteps.v > 1
    /\ alpha_buffer[numsteps.v - 1] # alpha_buffer[numsteps.v - 2]
    /\ alpha = Real(alpha_buffer[numsteps.v - 1].v)

\* ------------------------------------------------------------------ C10
\* C10: a call of metropolis with step_size as its sixth argument, as main
\* makes it, is accepted by the signature.
C10_StepSizeAccepted ==
    call.nargs = 6 => error.kind # "TypeError"

\* ------------------------------------------------------------------ C11
Ended == pc \in {"Done", "Error"}

\* C11: what a run ends with is a function of its arguments and of the
\* sequence of draws it took: the error it raised or, with none, its initial
\* positions, final positions, final alpha and three trajectories with every
\* entry written are those the call computes from the arguments and the draws,
\* and the run took every draw of the sequence; two runs with the same
\* arguments and the same draws therefore end identically.
C11_RunIsFunctionOfDraws ==
    (draws.on /\ Ended) =>
        LET r == Replay(call, draws.seq)
        IN /\ error = r.error
           /\ r.k = Len(draws.seq) + 1
           /\ rng_calls = Len(draws.seq)
           /\ pc = "Done" =>
                 /\ initial_pos = r.initial_pos
                 /\ position_vec = r.position_vec
                 /\ alpha = r.alpha
                 /\ alpha_buffer = r.alpha_buffer
                 /\ E_buffer = r.E_buffer
                 /\ dE_da_buffer = r.dE_da_buffer
                 /\ AllWritten(alpha_buffer) /\ AllWritten(E_buffer)
                 /\ AllWritten(dE_da_buffer)

\* a traced run of two outer steps is done, its walkers moved and alpha updated
C11_Witness ==
    /\ draws.on
    /\ pc = "Done"
    /\ numsteps.v = MaxNumSteps
    /\ position_vec # initial_pos
    /\ alpha # call.alpha
    /\ Len(draws.seq) > 2

\* ------------------------------------------------------------------ C12
\* C12: for every real alpha of [-1000, 200] and every array of positions,
\* trial_wavefunction returns an array of the same length whose element is
\* exp(-alpha * x) where x > 0 and exactly 0 where x <= 0, x == 0 included.
C12_TrialWavefunctionPiecewise ==
    (applied = "trial_wavefunction" /\ arg_alpha.t = "real" /\ InRange(arg_alpha.v)) =>
        /\ raised = NoError
        /\ ret.kind = "array"
        /\ Len(ret.v) = Len(arg_x)
        /\ \A w \in 1 .. Len(arg_x) :
              ret.v[w] = IF arg_x[w] > 0 THEN NpExp(FMul(0 - arg_alpha.v, arg_x[w]))
                         ELSE Zero

\* an array with a zero and a positive position was evaluated
C12_Witness ==
    /\ applied = "trial_wavefunction"
    /\ ret.kind = "array"
    /\ \E w \in DOMAIN arg_x : arg_x[w] = 0 /\ ret.v[w] = Zero
    /\ \E w \in DOMAIN arg_x : arg_x[w] > 0 /\ ret.v[w].k = "exp"

\* ------------------------------------------------------------------ C13
\* C13: trial_wavefunction raises a TypeError for an alpha that is not a real
\* number, whatever else holds; otherwise a ValueError for alpha < -1000 or
\* alpha > 200; in both cases it returns nothing; it returns an array for
\* every real alpha with -1000 <= alpha <= 200.
C13_AlphaValidatedFirst ==
    applied = "trial_wavefunction" =>
        IF arg_alpha.t # "real"
            THEN raised.kind = "TypeError" /\ ret = NoReturn
        ELSE IF arg_alpha.v < Lit(-1000) \/ arg_alpha.v > Lit(200)
            THEN raised.kind = "ValueError" /\ ret = NoReturn
        ELSE raised = NoError /\ ret.kind = "array"

\* alpha == 200, the end of the range, was accepted
C13_Witness ==
    /\ applied = "trial_wavefunction"
    /\ arg_alpha = Real(Lit(200))
    /\ arg_x # <<>>
    /\ ret.kind = "array"

\* ------------------------------------------------------------------ C14
\* C14: for every real alpha, inside or outside [-1000, 200], and every array
\* of nonzero positions, local_energy_func raises nothing and returns an array
\* of the same length whose element is -1/x - alpha^2/2 + alpha/x.
C14_LocalEnergyClosedForm ==
    (applied = "local_energy_func" /\ arg_alpha.t = "real") =>
        /\ raised = NoError
        /\ ret.kind = "array"
        /\ Len(ret.v) = Len(arg_x)
        /\ \A w \in 1 .. Len(arg_x) :
              ret.v[w] = FDiv(Lit(-1), arg_x[w])
                            - RoundDiv(FMul(arg_alpha.v, arg_alpha.v), 2)
                            + FDiv(arg_alpha.v, arg_x[w])

\* alpha == 201 with a negative and a positive position was evaluated
C14_Witness ==
    /\ applied = "local_energy_func"
    /\ arg_alpha = Real(Lit(201))
    /\ ret.kind = "array"
    /\ \E w \in DOMAIN arg_x : arg_x[w] < 0
    /\ \E w \in DOMAIN arg_x : arg_x[w] > 0

\* ------------------------------------------------------------------ C15
\* the mean product of two arrays minus the product of their means
C15_Covariance(a, b) ==
    Mean([w \in DOMAIN a |-> FMul(a[w], b[w])]) - FMul(Mean(a), Mean(b))

\* C15: for every real alpha and every non-empty array of nonzero positions,
\* dE_dalpha returns the scalar 2 * (mean(E_L * L) - mean(E_L) * mean(L)),
\* E_L the local energies and L = -x.
C15_GradientIsScaledCovariance ==
    (applied = "dE_dalpha" /\ arg_alpha.t = "real") =>
        /\ raised = NoError
        /\ ret = Scalar(2 * C15_Covariance(local_energy_func(arg_x, arg_alpha.v),
                                            [w \in DOMAIN arg_x |-> 0 - arg_x[w]]))

\* a gradient other than zero of an ensemble of the largest size
C15_Witness ==
    /\ applied = "dE_dalpha"
    /\ Len(arg_x) = MaxLen
    /\ ret.kind = "scalar"
    /\ ret.v[1] # 0

\* ------------------------------------------------------------------ C16
\* C16: for every learning_rate >= 0, real alpha and ensemble,
\* alpha_opt_on_fly returns (new_alpha, gradient) with gradient =
\* dE_dalpha(ensemble, alpha) and new_alpha = alpha - learning_rate * gradient;
\* new_alpha <= alpha when the gradient is positive, new_alpha = alpha when
\* it is zero.
C16_GradientDescentStep ==
    (/\ applied = "alpha_opt_on_fly"
     /\ arg_alpha.t = "real"
     /\ arg_learning_rate.t = "real" /\ arg_learning_rate.v >= 0) =>
        /\ raised = NoError
        /\ ret.kind = "pair"
        /\ ret.v[2] = dE_dalpha(arg_x, arg_alpha.v)
        /\ ret.v[1] = arg_alpha.v - FMul(arg_learning_rate.v, ret.v[2])
        /\ ret.v[2] > 0 => ret.v[1] <= arg_alpha.v
        /\ ret.v[2] = 0 => ret.v[1] = arg_alpha.v

\* a step with a positive gradient and a positive learning rate lowered alpha
C16_Witness ==
    /\ applied = "alpha_opt_on_fly"
    /\ ret.kind = "pair"
    /\ arg_learning_rate.v > 0
    /\ ret.v[2] > 0
    /\ ret.v[1] < arg_alpha.v

\* ------------------------------------------------------------------ C17
\* C17: for every learning_rate < 0, whatever alpha is, alpha_opt_on_fly
\* raises a ValueError and returns no pair.
C17_NegativeLearningRateRejected ==
    (/\ applied = "alpha_opt_on_fly"
     /\ arg_learning_rate.t = "real" /\ arg_learning_rate.v < 0) =>
        raised.kind = "ValueError" /\ ret = NoReturn

\* a negative learning rate was rejected before alpha, a str, was looked at
C17_Witness ==
    /\ applied = "alpha_opt_on_fly"
    /\ arg_learning_rate.t = "real" /\ arg_learning_rate.v < 0
    /\ arg_alpha.t = "str"
    /\ raised = ValueError(NegativeLearningRateMsg)

\* ------------------------------------------------------------------ C18
\* C18: in a run with learning_rate == 0 and otherwise valid inputs every
\* measurement warns and returns alpha exactly unchanged: the run never fails,
\* its alpha and every written entry of its alpha trajectory equal the
\* initial alpha, and when done its three trajectories are fully written.
C18_ZeroLearningRateKeepsAlpha ==
    (Validated /\ ValidInputs /\ learning_rate.v = 0) =>
        /\ pc # "Error"
        /\ alpha = call.alpha
        /\ \A k \in DOMAIN alpha_buffer :
              alpha_buffer[k].set => alpha_buffer[k].v = call.alpha.v
        /\ j > 0 => LearningRateWarning \in warned
        /\ pc = "Done" =>
              AllWritten(alpha_buffer) /\ AllWritten(dE_da_buffer) /\ AllWritten(E_buffer)

\* a run of the largest numsteps with learning_rate == 0 is done, its walkers
\* moved, its gradient entries not zero
C18_Witness ==
    /\ pc = "Done"
    /\ learning_rate = Real(0)
    /\ numsteps.v = MaxNumSteps
    /\ position_vec # initial_pos
    /\ LearningRateWarning \in warned
    /\ dE_da_buffer[0].v # 0
    /\ alpha_buffer[numsteps.v - 1].v = call.alpha.v

\* ------------------------------------------------------------------ C19
\* C19: for every learning_rate that is not an int or a float,
\* alpha_opt_on_fly raises a TypeError with the message
\* 'learning_rate must be a float or an integer.' and returns nothing.
C19_LearningRateTypeMessage ==
    (applied = "alpha_opt_on_fly" /\ arg_learning_rate.t # "real") =>
        /\ raised = TypeError("learning_rate must be a float or an integer.")
        /\ ret = NoReturn

\* ------------------------------------------------------------------ C20
\* the recognised keys the config file named on the command line holds
C20_FileKeys ==
    IF "config" \in DOMAIN argv /\ config.path # "" /\ config.file.has_section
    THEN (DOMAIN config.file.section \cup DOMAIN config.file.defaults) \cap Keys
    ELSE {}

\* C20: for each of the seven parameters the value main passes on is the
\* command-line value if the option was given, otherwise the config-file
\* value if the key is present, otherwise the built-in default.
C20_CommandLineOverridesConfig ==
    main_pc = "Called" =>
        \A key \in Keys :
            passed[key] = IF key \in DOMAIN argv THEN CliValue(key)
                          ELSE IF key \in C20_FileKeys THEN ConfigValue(key)
                          ELSE DefaultValue(key)

\* ------------------------------------------------------------------ C21
\* C21: a completed run has returned, in this order, the final ensemble, the
\* final alpha, the alpha, energy and gradient trajectories and the initial
\* snapshot; ensemble and snapshot have numwalkers entries; the snapshot is
\* the ensemble drawn at initialisation, each entry in [2, 3), and no later
\* step alters it; a run that has not completed has returned nothing.
C21_ReturnOrderAndSnapshot ==
    /\ [](pc = "Done" =>
            /\ returned = <<position_vec, alpha, alpha_buffer, E_buffer,
                            dE_da_buffer, initial_pos>>
            /\ DOMAIN returned[1] = 1 .. numwalkers.v
            /\ DOMAIN returned[6] = 1 .. numwalkers.v
            /\ \A w \in DOMAIN returned[6] :
                  Lit(2) <= returned[6][w] /\ returned[6][w] < Lit(3))
    /\ [](pc # "Done" => returned = <<>>)
    /\ [][IF pc = "Initializing"
            THEN initial_pos' = position_vec' /\ DOMAIN initial_pos' = 1 .. numwalkers.v
            ELSE initial_pos' = initial_pos]_vars

\* a run returned after its walkers had left their initial positions, with
\* an energy trajectory other than its gradient trajectory
C21_Witness ==
    /\ pc = "Done"
    /\ Len(returned) = 6
    /\ returned[1] # returned[6]
    /\ returned[4] # returned[5]
    /\ numwalkers.v = MaxWalkers

\* ------------------------------------------------------------------ C22
\* the recognised keys present in the [Simulation] section of the file
PresentKeys ==
    IF config_file.has_section THEN DOMAIN config_file.section \cap Keys ELSE {}

\* the recognised keys [Simulation] holds or inherits from [DEFAULT]
VisibleKeys ==
    IF config_file.has_section
    THEN (DOMAIN config_file.section \cup DOMAIN config_file.defaults) \cap Keys
    ELSE {}

\* the text of a visible key: the one of [Simulation] before the one of [DEFAULT]
VisibleText(key) ==
    IF key \in DOMAIN config_file.section THEN config_file.section[key]
    ELSE config_file.defaults[key]

\* the file is one configparser reads
Readable == config_file.read_error = NoError

\* the text of a visible key converts: a count is an integer literal, a real
\* a float literal, output_dir has no lone %
Converts(key) ==
    /\ key \in {"numwalkers", "numsteps", "equilibration_steps"} =>
           VisibleText(key) = "5000"
    /\ key \in {"alpha", "learning_rate", "step_size"} =>
           VisibleText(key) \in {"5000", "0.9"}
    /\ key = "output_dir" => VisibleText(key) # "50%"

WellFormed == \A key \in VisibleKeys : Converts(key)

\* the first key, in the order of the lookups, whose text does not convert
FirstFailing ==
    KeyOrder[CHOOSE k \in DOMAIN KeyOrder :
                /\ KeyOrder[k] \in VisibleKeys /\ ~Converts(KeyOrder[k])
                /\ \A l \in 1 .. k - 1 :
                       KeyOrder[l] \in VisibleKeys => Converts(KeyOrder[l])]

\* the exception of the conversion of a key whose text does not convert
C22_ConversionError(key) ==
    CASE key \in {"numwalkers", "numsteps", "equilibration_steps"} ->
             ValueError(IntLiteralMsg(VisibleText(key)))
      [] key \in {"alpha", "learning_rate", "step_size"} ->
             ValueError(FloatLiteralMsg)
      [] OTHER -> InterpolationSyntaxError(InterpolationMsg)

\* the value the dictionary holds for the text of a key
C22_Typed(key, text, value) ==
    CASE key \in {"numwalkers", "numsteps", "equilibration_steps"} ->
             value.t = "int" /\ value.n = 5000
      [] key \in {"alpha", "learning_rate", "step_size"} ->
             /\ value.t = "float"
             /\ text = "5000" => value.n = 5000 * Scale
             /\ text = "0.9" => 10 * value.n = 9 * Scale
      [] OTHER -> value.t = "str" /\ value.s = text

SweepsRun == (rng_calls - 1) \div 2

\* the entries of the three trajectories written so far are those below k
WrittenBelow(k) ==
    \A b \in {alpha_buffer, dE_da_buffer, E_buffer} :
        \A n \in DOMAIN b : b[n].set <=> n < k

\* C23: a run goes Validating -> Initializing -> (Equilibrating -> Measuring)
\* repeated -> Done.  The optimizer of an outer step is called after exactly
\* equilibration_steps sweeps of that step; a sweep of step j runs only when
\* the entries of all steps before j, and no others, are written; a completed
\* run has made numsteps * equilibration_steps sweeps and numsteps optimizer
\* calls, each call advancing j by one.
C23_ControlFlowAndCounts ==
    /\ [][CASE pc = "Validating" -> pc' \in {"Initializing", "Error"}
            [] pc = "Initializing" ->
                   pc' = IF equilibration_steps.v > 0 THEN "Equilibrating" ELSE "Measuring"
            [] pc = "Equilibrating" ->
                   /\ pc' \in {"Equilibrating", "Measuring", "Error"}
                   /\ pc' = "Measuring" => i' = equilibration_steps.v
                   /\ pc' = "Equilibrating" => i' = i + 1 /\ i' < equilibration_steps.v
            [] pc = "Measuring" ->
                   /\ pc' \in {"Error", "Done",
                               IF equilibration_steps.v > 0 THEN "Equilibrating"
                               ELSE "Measuring"}
                   /\ pc' # "Error" => j' = j + 1 /\ i' = 0
                   /\ pc' = "Done" <=> j' = numsteps.v
            [] pc \in {"Done", "Error"} -> FALSE
            [] OTHER -> TRUE]_vars
    /\ [][j' # j => pc = "Measuring" /\ i = equilibration_steps.v]_vars
    /\ [](pc = "Measuring" =>
            /\ i = equilibration_steps.v
            /\ j < numsteps.v
            /\ rng_calls = 1 + 2 * (j + 1) * equilibration_steps.v
            /\ WrittenBelow(j))
    /\ [](pc = "Equilibrating" =>
            /\ i < equilibration_steps.v
            /\ j < numsteps.v
            /\ rng_calls = 1 + 2 * (j * equilibration_steps.v + i)
            /\ WrittenBelow(j))
    /\ [](pc = "Done" =>
            /\ j = numsteps.v
            /\ SweepsRun = numsteps.v * equilibration_steps.v
            /\ rng_calls = 1 + 2 * SweepsRun
            /\ WrittenBelow(numsteps.v))

\* a run of several outer steps, each of several sweeps, has completed
C23_Witness ==
    /\ pc = "Done"
    /\ numsteps.v > 1
    /\ equilibration_steps.v > 1
    /\ SweepsRun = numsteps.v * equilibration_steps.v
    /\ j = numsteps.v

\* ------------------------------------------------------------------ C24
\* the counts and the learning rate of the call are valid
ValidCountsAndRate ==
    /\ call.nargs = 5
    /\ call.equilibration_steps.t = "int" /\ call.numsteps.t = "int"
    /\ call.numwalkers.t = "int"
    /\ call.numsteps.v > 0 /\ call.numwalkers.v > 0
    /\ call.equilibration_steps.v >= 0
    /\ call.learning_rate.t = "real" /\ call.learning_rate.v >= 0

\* C24: a run with valid counts and a learning rate >= 0 ends: it reaches
\* Done or Error.  Done is reached with exactly numsteps outer iterations made;
\* j never exceeds numsteps; every sweep and every measurement that does not
\* fail advances the pair (j, i), so no step is made twice; an ended run makes
\* no further step.
C24_RunTerminates ==
    /\ ValidCountsAndRate ~> pc \in {"Done", "Error"}
    /\ [](ValidCountsAndRate /\ pc \notin {"Call", "Validating"} =>
            /\ j <= numsteps.v
            /\ pc = "Done" => j = numsteps.v
            /\ pc \in {"Equilibrating", "Measuring"} => j < numsteps.v)
    /\ [][/\ pc \in {"Equilibrating", "Measuring"} /\ pc' # "Error" =>
                \/ j' = j /\ i' = i + 1
                \/ j' = j + 1 /\ i' = 0
          /\ pc \notin {"Done", "Error"}]_vars

\* a valid run of several outer steps, with sweeps in each, has reached Done
C24_Witness ==
    /\ ValidCountsAndRate
    /\ pc = "Done" /\ j = numsteps.v /\ j > 1
    /\ equilibration_steps.v > 0

\* ------------------------------------------------------------------ C25
\* the sweep of one walker alone: an ensemble of that walker only, at x, with
\* its Gaussian draw and its uniform draw
WalkerStep(x, randn_w, u_w, alpha_) ==
    LET proposal == Propose(<<x>>, <<randn_w>>)
        ratio == Ratio(trial_wavefunction(proposal, alpha_)[1],
                       trial_wavefunction(<<x>>, alpha_)[1])
    IN  Accept(<<ratio>>, <<u_w>>, proposal, <<x>>)[1]

\* the walkers processed one after the other in the given order, each on the
\* ensemble the walkers before it have left
RECURSIVE OneByOne(_, _, _, _, _)
OneByOne(order, ensemble, randn, u, alpha_) ==
    IF order = <<>> THEN ensemble
    ELSE LET w == Head(order)
         IN  OneByOne(Tail(order),
                      [ensemble EXCEPT ![w] = WalkerStep(ensemble[w], randn[w], u[w], alpha_)],
                      randn, u, alpha_)

\* the orders in which n walkers can be processed
Orders(n) == {o \in [1 .. n -> 1 .. n] : \A a, b \in 1 .. n : o[a] = o[b] => a = b}

\* C25: in a sweep that does not abort, the new position of every walker is
\* the one the walker would get alone, from its own position, its own Gaussian
\* draw, its own uniform draw and alpha; processing the walkers one by one in
\* any order, with the same draws, gives the ensemble of the sweep.
C25_WalkersIndependent ==
    [][SweepDone =>
         LET n == Len(draws'.seq)
             randn == draws'.seq[n - 1]
             u == draws'.seq[n]
         IN  /\ n = Len(draws.seq) + 2
             /\ randn.kind = "randn" /\ u.kind = "uniform"
             /\ DOMAIN randn.v = Walkers /\ DOMAIN u.v = Walkers
             /\ \A w \in Walkers :
                    position_vec'[w] =
                        WalkerStep(position_vec[w], randn.v[w], u.v[w], alpha.v)
             /\ \A o \in Orders(numwalkers.v) :
                    OneByOne(o, position_vec, randn.v, u.v, alpha.v) = position_vec']_vars

\* a sweep of several walkers has completed in which one walker moved and
\* another, with the same Gaussian draw and another uniform draw, stayed
C25_Witness ==
    /\ pc \in {"Equilibrating", "Measuring"}
    /\ draws.on /\ Len(draws.seq) = 3
    /\ \E v, w \in Walkers :
          /\ v # w
          /\ draws.seq[2].v[v] = draws.seq[2].v[w]
          /\ draws.seq[3].v[v] # draws.seq[3].v[w]
          /\ position_vec[v] = new_position_vec[v]
          /\ position_vec[w] # new_position_vec[w]
          /\ position_vec[w] = initial_pos[w]

\* ------------------------------------------------------------------ C26
\* every entry of the trajectory other than entry k is as it was
OnlyEntryChanged(b, k) ==
    /\ DOMAIN b' = DOMAIN b
    /\ \A n \in DOMAIN b : n # k => b'[n] = b[n]

\* C26: a sweep leaves alpha, the three trajectories and the ensemble size as
\* they were (it changes walker positions only); a measurement leaves every
\* walker position, the snapshot and every trajectory entry other than entry j
\* as they were (it changes alpha and entry j only), and a measurement that
\* fails changes neither alpha nor a trajectory; a call of trial_wavefunction,
\* local_energy_func, dE_dalpha or alpha_opt_on_fly leaves the ensemble, the
\* alpha and the learning rate passed to it as they were.
C26_FrameConditions ==
    [][/\ pc = "Equilibrating" =>
            /\ alpha' = alpha
            /\ buffers' = buffers
            /\ numwalkers' = numwalkers
            /\ DOMAIN position_vec' = DOMAIN position_vec
            /\ initial_pos' = initial_pos
            /\ j' = j
       /\ pc = "Measuring" =>
            /\ position_vec' = position_vec
            /\ initial_pos' = initial_pos
            /\ numwalkers' = numwalkers
            /\ OnlyEntryChanged(alpha_buffer, j)
            /\ OnlyEntryChanged(dE_da_buffer, j)
            /\ OnlyEntryChanged(E_buffer, j)
            /\ pc' = "Error" => alpha' = alpha /\ buffers' = buffers
       /\ (applied = "" /\ applied' # "") =>
            /\ arg_x' = arg_x
            /\ arg_alpha' = arg_alpha
            /\ arg_learning_rate' = arg_learning_rate]_vars

\* the second measurement of a run has changed alpha after sweeps that moved
\* a walker, the first entry of the alpha trajectory still the first alpha
C26_Witness ==
    /\ pc = "Done" /\ j = 2
    /\ position_vec # initial_pos
    /\ alpha_buffer[0].set /\ alpha_buffer[1].set
    /\ alpha_buffer[0].v # alpha_buffer[1].v
    /\ alpha.v = alpha_buffer[1].v

\* ------------------------------------------------------------------ C27
\* a step that is one completed measurement
MeasureDone == pc = "Measuring" /\ pc' # "Error"

\* C27: a measurement of outer step j stores at index j the gradient
\* dE_dalpha of the ensemble at the alpha of that step's sweeps (the alpha
\* before the update) and the mean local energy of the same ensemble at the
\* updated alpha, which is the value stored at index j of the alpha
\* trajectory; the ensemble is the one the sweeps left.
C27_GradientBeforeEnergyAfterUpdate ==
    [][MeasureDone =>
         /\ dE_da_buffer'[j] = Val(dE_dalpha(position_vec, alpha.v))
         /\ alpha_buffer'[j] = Val(alpha'.v)
         /\ E_buffer'[j] = Val(Mean(local_energy_func(position_vec, alpha_buffer'[j].v)))
         /\ position_vec' = position_vec]_vars

\* a measurement has changed alpha, and its energy entry is not the mean
\* local energy at the alpha its gradient entry was evaluated at
C27_Witness ==
    /\ pc \in {"Equilibrating", "Measuring", "Done"}
    /\ j = 1 /\ i = 0
    /\ alpha_buffer[0].set
    /\ alpha_buffer[0].v # call.alpha.v
    /\ dE_da_buffer[0].v # 0
    /\ E_buffer[0].v # Mean(local_energy_func(position_vec, call.alpha.v))

\* ------------------------------------------------------------------ C28
\* C28: in a run with equilibration_steps == 0 no sweep is made and the trial
\* wavefunction is never evaluated (no proposal, numerator, denominator or
\* ratio is ever computed; the generator is called for the initial positions
\* only); the ensemble is the initial snapshot at every point of the run, and
\* the final positions returned equal the snapshot returned; the run never
\* ends with the error of the alpha range check, of the alpha type check of
\* trial_wavefunction, or of the zero denominator.
C28_NoSweepWithoutEquilibration ==
    (call.nargs = 5 /\ equilibration_steps = [t |-> "int", v |-> 0]) =>
        /\ pc # "Equilibrating"
        /\ i = 0
        /\ rng_calls <= 1
        /\ new_position_vec = <<>> /\ numerator = <<>> /\ denominator = <<>>
        /\ p = <<>> /\ rand_unif_array = <<>>
        /\ position_vec = initial_pos
        /\ pc = "Done" => returned[1] = returned[6] /\ returned[1] = initial_pos
        /\ error # ValueError(DivZeroMsg)
        /\ error = NoError \/ error # trial_wavefunction_raises(alpha)
        /\ error.kind = "ValueError" =>
               error.msg \in {CountsValueMsg, EquilValueMsg, NegativeLearningRateMsg}

\* a run without sweeps, of several outer steps and several walkers, called
\* with an alpha above the accepted range, has completed
C28_Witness ==
    /\ pc = "Done"
    /\ equilibration_steps = [t |-> "int", v |-> 0]
    /\ numsteps.v > 1 /\ numwalkers.v > 1
    /\ call.alpha.t = "real" /\ ~InRange(call.alpha.v)
    /\ returned[1] = returned[6]
    /\ rng_calls = 1

\* ------------------------------------------------------------------ C29
\* C29: a standalone local_energy_func (src/local_energy.py,
\* src/wavefunction.py) called with a real alpha returns, for nonzero
\* positions, the value of the packaged local_energy_func,
\* -1/x - alpha^2/2 + alpha/x, and raises its ValueError when a position is 0.
C29_StandaloneEqualsPackaged ==
    applied \in {"local_energy.local_energy_func", "wavefunction.local_energy_func"} =>
        IF Nonzero(arg_x)
            THEN /\ raised = NoError
                 /\ ret = Array(local_energy_func(arg_x, arg_alpha.v))
            ELSE raised = ValueError(StandaloneZeroMsg)

====
